---- MODULE Spec2Model ----
(***************************************************************************)
(* A model of the workspace storage, the iris grid table model, the iris   *)
(* grid serialisation utilities and the console panel of web-client-ui.    *)
(*                                                                         *)
(*   SpecStorage    LocalWorkspaceStorage over the browser localStorage    *)
(*   SpecGridState  IrisGridUtils.dehydrateGridState / hydrateGridState    *)
(*   SpecPendingDataMap  IrisGridUtils.dehydratePendingDataMap and back    *)
(*   SpecFilters    IrisGridUtils.hydrateQuickFilters and its siblings     *)
(*   SpecViewportData  IrisGridTableModel viewport cache and valueForCell  *)
(*   SpecViewport   IrisGridTableModel setViewport, applyViewport, subscription *)
(*   SpecPending    IrisGridTableModel pending data and setValueForRanges  *)
(*   SpecIntegerFormat  IntegerColumnFormatter.format and isValid          *)
(*   SpecCommit     IrisGridTableModel commitPending, delete and setValues *)
(*   SpecTotals     IrisGridTableModel totals table, close and the viewport *)
(*   SpecSort       IrisGridUtils.dehydrateSort and hydrateSort            *)
(*   SpecPanel      ConsolePanel state, savePanelState and its debounce    *)
(***************************************************************************)
EXTENDS Integers, Sequences, FiniteSets, TLC

VARIABLES
    \* ---- LocalWorkspaceStorage ----
    localStorage,    \* the browser localStorage: key -> stored text
    layoutStorage,   \* LocalWorkspaceStorage.layoutStorage
    loadCall,        \* <<>> or <<the arguments and the stored item of the last load()>>
    loadResult,      \* <<>> or <<how the promise of the last load() settled>>
    saveCall,        \* <<>> or <<the workspace handed to the last save()>>
    saveResult,      \* <<>> or <<how the promise of the last save() settled>>
    \* ---- IrisGridUtils.dehydrateGridState / hydrateGridState ----
    gsColumns,       \* model.columns when the grid state is dehydrated
    gsGridState,     \* the grid state handed to dehydrateGridState
    gsDehydrated,    \* <<>> or <<the dehydrated grid state>>
    gsHydrateColumns,\* <<>> or <<model.columns when the state is hydrated>>
    gsHydrated,      \* <<>> or <<what hydrateGridState returned>>
    \* ---- IrisGridUtils.dehydratePendingDataMap / hydratePendingDataMap ----
    pdColumns,       \* the columns of the table
    pdMap,           \* the pending data map handed to dehydratePendingDataMap
    pdDehydrated,    \* <<>> or <<what dehydratePendingDataMap returned or threw>>
    pdHydrated,      \* <<>> or <<what hydratePendingDataMap returned or threw>>
    \* ---- IrisGridUtils: hydrating quick, advanced and input filters ----
    fColumns,        \* the columns the filters are hydrated for
    fCall,           \* <<>> or <<the last call: its name and its argument>>
    fResult,         \* <<>> or <<what the last call returned or threw>>
    \* ---- IrisGridTableModel: the cached viewport data ----
    vdTableSize,     \* table.size
    vdTotals,        \* IrisGridTableModel.totals
    vdPendingNewRowCount,\* IrisGridTableModel.pendingNewRowCount
    vdViewportData,  \* IrisGridTableModel.viewportData
    vdFormattedStringData,\* IrisGridTableModel.formattedStringData: << >> or the cached texts
    vdLastDetail,    \* <<>> or <<the detail of the last table update event>>
    vdLastData,      \* <<>> or <<the data of the last table update event that had data>>
    \* ---- IrisGridTableModel: the viewport, its throttles and the subscription ----
    vpListening,     \* whether startListening() has been called and stopListening() not since
    vpTableClosed,   \* whether table.close() has been called
    vpTableFilter,   \* table.filter
    vpTableSort,     \* table.sort
    vpViewport,      \* IrisGridTableModel.viewport
    vpSubscription,  \* IrisGridTableModel.subscription: <<>> or <<its viewport>>
    vpSetThrottle,   \* the timer and the pending call of the throttled setViewport
    vpApplyThrottle, \* the timer and the pending call of the throttled applyViewport
    vpCustomColumnList,\* IrisGridTableModel.customColumnList
    vpFormatColumnList,\* IrisGridTableModel.formatColumnList
    vpLastRequest,   \* <<>> or <<the last viewport the table or a subscription was asked for>>
    vpLastCall,      \* <<>> or <<the arguments of the last setViewport call with bottom >= top>>
    vpStopped,       \* whether the model was stopped or closed after that call
    vpOpenSubscriptions, \* how many subscriptions the table handed out are not closed
    vpClosedSubscription, \* whether a subscription of the table has been closed
    vpChangedWhileSubscribed, \* whether the table was changed while a subscription was open
    vpStopRecord,    \* <<>> or <<what stopListening found>>, until the next call
    vpTotals,        \* this.totals: null or a totals configuration
    vpTotalsTable,   \* this.totalsTable: null or a totals table
    vpTotalsTablePromise, \* this.totalsTablePromise: null or a cancelable promise
    vpTotalsRequests,\* the calls of table.getTotalsTable and what became of them
    \* ---- IrisGridTableModel: pending rows and edits of an input table ----
    pnInputTable,    \* IrisGridTableModel.inputTable
    pnPendingNewDataMap,\* IrisGridTableModel.pendingNewDataMap
    pnPendingNewRowCount,\* IrisGridTableModel.pendingNewRowCount
    pnFormattedStringData,\* IrisGridTableModel.formattedStringData: cell -> text
    pnPendingStringData,\* IrisGridTableModel.pendingStringData: cell -> text or null
    pnEdit,          \* <<>> or <<the setValueForRanges or setValues call in flight>>
    pnLastOp,        \* <<>> or <<the last call, its events>> and how the promise of an edit settled
    pnViewport,      \* IrisGridTableModel.viewport of the edited model: undefined or its bottom row
    pnIsSaveInProgress,\* IrisGridTableModel.isSaveInProgress
    pnCommits,       \* for each commitPending call in flight, the cell values entered since it sent the rows
    \* ---- IntegerColumnFormatter ----
    ifRejects,       \* the format strings and the values dh.i18n.NumberFormat.format rejects
    ifCall,          \* <<>> or <<the last call: its name and its arguments>>
    ifResult,        \* <<>> or <<what the last call returned or threw>>
    \* ---- ConsolePanel: the state of the component ----
    cpPhase,         \* constructed, mounted or unmounted
    cpConsoleSettings,\* state.consoleSettings
    cpItemIds,       \* state.itemIds: Map of name -> panel id
    cpPanelState,    \* state.panelState: the dehydrated panel state
    cpSaveTimer,     \* whether the debounced savePanelState waits for its timer
    cpChanged        \* whether consoleSettings or itemIds changed since construction

storageVars == <<localStorage, layoutStorage, loadCall, loadResult, saveCall, saveResult>>
gridStateVars == <<gsColumns, gsGridState, gsDehydrated, gsHydrateColumns, gsHydrated>>
pendingDataMapVars == <<pdColumns, pdMap, pdDehydrated, pdHydrated>>
filtersVars == <<fColumns, fCall, fResult>>
viewportDataVars == <<vdTableSize, vdTotals, vdPendingNewRowCount, vdViewportData, vdFormattedStringData, vdLastDetail, vdLastData>>
viewportVars == <<vpListening, vpTableClosed, vpTableFilter, vpTableSort, vpViewport, vpSubscription, vpSetThrottle, vpApplyThrottle, vpCustomColumnList, vpFormatColumnList, vpLastRequest, vpLastCall, vpStopped, vpOpenSubscriptions, vpClosedSubscription, vpChangedWhileSubscribed, vpStopRecord, vpTotals, vpTotalsTable, vpTotalsTablePromise, vpTotalsRequests>>
pendingVars == <<pnInputTable, pnPendingNewDataMap, pnPendingNewRowCount, pnFormattedStringData, pnPendingStringData, pnEdit, pnLastOp, pnViewport, pnIsSaveInProgress, pnCommits>>
integerFormatVars == <<ifRejects, ifCall, ifResult>>
panelVars == <<cpPhase, cpConsoleSettings, cpItemIds, cpPanelState, cpSaveTimer, cpChanged>>

vars == <<storageVars, gridStateVars, pendingDataMapVars, filtersVars, viewportDataVars, viewportVars, pendingVars, integerFormatVars, panelVars>>

\* The value of the variables of a component a specification does not run
StorageIdle ==
    /\ localStorage = << >> /\ layoutStorage = "" /\ loadCall = << >>
    /\ loadResult = << >> /\ saveCall = << >> /\ saveResult = << >>
GridStateIdle ==
    /\ gsColumns = << >> /\ gsGridState = << >> /\ gsDehydrated = << >>
    /\ gsHydrateColumns = << >> /\ gsHydrated = << >>

PendingDataMapIdle ==
    /\ pdColumns = << >> /\ pdMap = << >> /\ pdDehydrated = << >> /\ pdHydrated = << >>

FiltersIdle ==
    /\ fColumns = << >>
    /\ fCall = << >>
    /\ fResult = << >>

ViewportDataIdle ==
    /\ vdTableSize = << >>
    /\ vdTotals = << >>
    /\ vdPendingNewRowCount = << >>
    /\ vdViewportData = << >>
    /\ vdFormattedStringData = << >>
    /\ vdLastDetail = << >>
    /\ vdLastData = << >>

ViewportIdle ==
    /\ vpListening = << >>
    /\ vpTableClosed = << >>
    /\ vpTableFilter = << >>
    /\ vpTableSort = << >>
    /\ vpViewport = << >>
    /\ vpSubscription = << >>
    /\ vpSetThrottle = << >>
    /\ vpApplyThrottle = << >>
    /\ vpCustomColumnList = << >>
    /\ vpFormatColumnList = << >>
    /\ vpLastRequest = << >>
    /\ vpLastCall = << >>
    /\ vpStopped = << >>
    /\ vpOpenSubscriptions = << >>
    /\ vpClosedSubscription = << >>
    /\ vpChangedWhileSubscribed = << >>
    /\ vpStopRecord = << >>
    /\ vpTotals = << >>
    /\ vpTotalsTable = << >>
    /\ vpTotalsTablePromise = << >>
    /\ vpTotalsRequests = << >>

PendingIdle ==
    /\ pnInputTable = << >>
    /\ pnPendingNewDataMap = << >>
    /\ pnPendingNewRowCount = << >>
    /\ pnFormattedStringData = << >>
    /\ pnPendingStringData = << >>
    /\ pnEdit = << >>
    /\ pnLastOp = << >>
    /\ pnViewport = << >>
    /\ pnIsSaveInProgress = << >>
    /\ pnCommits = << >>

IntegerFormatIdle ==
    /\ ifRejects = << >>
    /\ ifCall = << >>
    /\ ifResult = << >>

PanelIdle ==
    /\ cpPhase = << >>
    /\ cpConsoleSettings = << >>
    /\ cpItemIds = << >>
    /\ cpPanelState = << >>
    /\ cpSaveTimer = << >>
    /\ cpChanged = << >>

notStorageVars == <<gridStateVars, pendingDataMapVars, filtersVars, viewportDataVars, viewportVars, pendingVars, integerFormatVars, panelVars>>
NotStorageIdle ==
    GridStateIdle /\ PendingDataMapIdle /\ FiltersIdle /\ ViewportDataIdle /\ ViewportIdle /\ PendingIdle /\ IntegerFormatIdle /\ PanelIdle
notGridStateVars == <<storageVars, pendingDataMapVars, filtersVars, viewportDataVars, viewportVars, pendingVars, integerFormatVars, panelVars>>
NotGridStateIdle ==
    StorageIdle /\ PendingDataMapIdle /\ FiltersIdle /\ ViewportDataIdle /\ ViewportIdle /\ PendingIdle /\ IntegerFormatIdle /\ PanelIdle
notPendingDataMapVars == <<storageVars, gridStateVars, filtersVars, viewportDataVars, viewportVars, pendingVars, integerFormatVars, panelVars>>
NotPendingDataMapIdle ==
    StorageIdle /\ GridStateIdle /\ FiltersIdle /\ ViewportDataIdle /\ ViewportIdle /\ PendingIdle /\ IntegerFormatIdle /\ PanelIdle
notFiltersVars == <<storageVars, gridStateVars, pendingDataMapVars, viewportDataVars, viewportVars, pendingVars, integerFormatVars, panelVars>>
NotFiltersIdle ==
    StorageIdle /\ GridStateIdle /\ PendingDataMapIdle /\ ViewportDataIdle /\ ViewportIdle /\ PendingIdle /\ IntegerFormatIdle /\ PanelIdle
notViewportDataVars == <<storageVars, gridStateVars, pendingDataMapVars, filtersVars, viewportVars, pendingVars, integerFormatVars, panelVars>>
NotViewportDataIdle ==
    StorageIdle /\ GridStateIdle /\ PendingDataMapIdle /\ FiltersIdle /\ ViewportIdle /\ PendingIdle /\ IntegerFormatIdle /\ PanelIdle
notViewportVars == <<storageVars, gridStateVars, pendingDataMapVars, filtersVars, viewportDataVars, pendingVars, integerFormatVars, panelVars>>
NotViewportIdle ==
    StorageIdle /\ GridStateIdle /\ PendingDataMapIdle /\ FiltersIdle /\ ViewportDataIdle /\ PendingIdle /\ IntegerFormatIdle /\ PanelIdle
notPendingVars == <<storageVars, gridStateVars, pendingDataMapVars, filtersVars, viewportDataVars, viewportVars, integerFormatVars, panelVars>>
NotPendingIdle ==
    StorageIdle /\ GridStateIdle /\ PendingDataMapIdle /\ FiltersIdle /\ ViewportDataIdle /\ ViewportIdle /\ IntegerFormatIdle /\ PanelIdle
notIntegerFormatVars == <<storageVars, gridStateVars, pendingDataMapVars, filtersVars, viewportDataVars, viewportVars, pendingVars, panelVars>>
NotIntegerFormatIdle ==
    StorageIdle /\ GridStateIdle /\ PendingDataMapIdle /\ FiltersIdle /\ ViewportDataIdle /\ ViewportIdle /\ PendingIdle /\ PanelIdle
notPanelVars == <<storageVars, gridStateVars, pendingDataMapVars, filtersVars, viewportDataVars, viewportVars, pendingVars, integerFormatVars>>
NotPanelIdle ==
    StorageIdle /\ GridStateIdle /\ PendingDataMapIdle /\ FiltersIdle /\ ViewportDataIdle /\ ViewportIdle /\ PendingIdle /\ IntegerFormatIdle

(***************************************************************************)
(* JavaScript values. Every value carries its type, so that values of      *)
(* different types can be compared.                                        *)
(***************************************************************************)
Undefined == [t |-> "undefined"]
JsNull == [t |-> "null"]
Str(s) == [t |-> "string", v |-> s]
Bool(b) == [t |-> "boolean", v |-> b]
Arr(s) == [t |-> "array", v |-> s]
Obj(f) == [t |-> "object", props |-> f]

Nullish(v) == v.t \in {"undefined", "null"}

\* A map or an object without entries
EmptyMap == [k \in {} |-> Undefined]

\* o.k for an object o: a missing property reads as undefined
Get(o, k) == IF o.t = "object" /\ k \in DOMAIN o.props THEN o.props[k] ELSE Undefined

\* o.k = v
Put(o, k, v) ==
    Obj([x \in DOMAIN o.props \cup {k} |-> IF x = k THEN v ELSE o.props[x]])

\* String.prototype.toLowerCase on the strings the model uses
ToLowerCase(s) ==
    CASE s \in {"true", "TRUE", "True"} -> "true"
      [] s \in {"false", "FALSE"} -> "false"
      [] OTHER -> s

(***************************************************************************)
(* JSON texts. JSON.stringify drops the properties whose value is          *)
(* undefined; JSON.parse throws on the empty string and on garbage.        *)
(***************************************************************************)
RECURSIVE JsonStrip(_)
JsonStrip(v) ==
    IF v.t = "object"
    THEN Obj([k \in {k2 \in DOMAIN v.props : v.props[k2].t # "undefined"} |->
                 JsonStrip(v.props[k])])
    ELSE v

JsonStringify(v) == [kind |-> "json", val |-> JsonStrip(v)]
EmptyText == [kind |-> "empty"]
GarbageText == [kind |-> "garbage"]

JsonParseThrows(text) == text.kind # "json"
JsonParse(text) == text.val

(***************************************************************************)
(* LocalWorkspaceStorage                                                   *)
(***************************************************************************)
STORAGE_KEY == "deephaven.WorkspaceStorage"

\* serverConfigValues: Map<string, string> | undefined. The undefined map and
\* the empty map answer every get() with undefined.
ServerConfigs ==
    { [k \in {} |-> ""],
      [k \in {"timeZone"} |-> "UTC"],
      [k \in {"timeZone", "dateTimeFormat", "decimalFormat", "integerFormat",
              "truncateNumbersWithPound", "isMinimapEnabled", "showTimeZone"} |->
          CASE k = "timeZone" -> "America/New_York"
            [] k = "dateTimeFormat" -> "yyyy-MM-dd"
            [] k = "decimalFormat" -> "0.00"
            [] k = "integerFormat" -> "0"
            [] k = "truncateNumbersWithPound" -> "TRUE"
            [] k = "isMinimapEnabled" -> "false"
            [] OTHER -> "yes"] }

\* options: WorkspaceStorageLoadOptions | undefined
LoadOptions == { << >>, <<TRUE>>, <<FALSE>> }

LayoutStorages == {"layoutsA", "layoutsB"}

CfgGet(cfg, k) == IF k \in DOMAIN cfg THEN Str(cfg[k]) ELSE Undefined

getBooleanServerConfig(cfg, k) ==
    IF k \in DOMAIN cfg /\ ToLowerCase(cfg[k]) = "true" THEN Bool(TRUE)
    ELSE IF k \in DOMAIN cfg /\ ToLowerCase(cfg[k]) = "false" THEN Bool(FALSE)
    ELSE Undefined

\* UserLayoutUtils.getDefaultLayout(layoutStorage, isConsoleAvailable): the
\* layout is a function of the layout storage and of the flag.
getDefaultLayout(ls, options) ==
    LET flag == IF options = << >> THEN "undefined"
                ELSE IF options[1] THEN "console" ELSE "noconsole"
    IN [filterSets |-> Arr(<<ls, "filterSets">>),
        links |-> Arr(<<ls, "links">>),
        layoutConfig |-> Arr(<<ls, flag>>)]

makeWorkspaceData(ls, options, cfg) ==
    LET layout == getDefaultLayout(ls, options)
        settings ==
            [k \in {"defaultDateTimeFormat", "formatter", "timeZone", "showTimeZone",
                    "showTSeparator", "disableMoveConfirmation",
                    "defaultDecimalFormatOptions", "defaultIntegerFormatOptions",
                    "truncateNumbersWithPound", "defaultNotebookSettings"} |->
                CASE k = "defaultDateTimeFormat" -> CfgGet(cfg, "dateTimeFormat")
                  [] k = "formatter" -> Arr(<< >>)
                  [] k = "timeZone" -> CfgGet(cfg, "timeZone")
                  [] k = "showTimeZone" -> getBooleanServerConfig(cfg, "showTimeZone")
                  [] k = "showTSeparator" -> getBooleanServerConfig(cfg, "showTSeparator")
                  [] k = "disableMoveConfirmation" ->
                        getBooleanServerConfig(cfg, "disableMoveConfirmation")
                  [] k = "defaultDecimalFormatOptions" ->
                        IF CfgGet(cfg, "decimalFormat") # Undefined
                        THEN Obj([j \in {"defaultFormatString"} |->
                                     CfgGet(cfg, "decimalFormat")])
                        ELSE Undefined
                  [] k = "defaultIntegerFormatOptions" ->
                        IF CfgGet(cfg, "integerFormat") # Undefined
                        THEN Obj([j \in {"defaultFormatString"} |->
                                     CfgGet(cfg, "integerFormat")])
                        ELSE Undefined
                  [] k = "truncateNumbersWithPound" ->
                        getBooleanServerConfig(cfg, "truncateNumbersWithPound")
                  [] OTHER ->
                        IF CfgGet(cfg, "isMinimapEnabled") # Undefined
                        THEN Obj([j \in {"isMinimapEnabled"} |->
                                     getBooleanServerConfig(cfg, "isMinimapEnabled")])
                        ELSE Undefined]
    IN Obj([k \in {"settings", "layoutConfig", "closed", "links", "filterSets"} |->
               CASE k = "settings" -> Obj(settings)
                 [] k = "layoutConfig" -> layout.layoutConfig
                 [] k = "closed" -> Arr(<<"{}">>)
                 [] k = "links" -> layout.links
                 [] OTHER -> layout.filterSets])

makeDefaultWorkspace(ls, options, cfg) ==
    Obj([k \in {"data"} |-> makeWorkspaceData(ls, options, cfg)])

\* The statements of load() between JSON.parse and return: each fills one
\* setting of workspace.settings in when it is undefined.
LoadFillThrows(workspace) ==
    \/ Nullish(workspace)
    \/ Nullish(Get(workspace, "settings"))
    \/ Nullish(Get(Get(workspace, "settings"), "defaultDecimalFormatOptions"))
    \/ Nullish(Get(Get(workspace, "settings"), "defaultIntegerFormatOptions"))
    \/ Nullish(Get(Get(workspace, "settings"), "defaultNotebookSettings"))

LoadFill(workspace, cfg) ==
    LET s0 == Get(workspace, "settings")
        s1 == IF Get(s0, "timeZone") = Undefined
              THEN Put(s0, "timeZone", CfgGet(cfg, "timeZone")) ELSE s0
        s2 == IF Get(s1, "defaultDateTimeFormat") = Undefined
              THEN Put(s1, "defaultDateTimeFormat", CfgGet(cfg, "dateTimeFormat"))
              ELSE s1
        s3 == IF /\ Get(Get(s2, "defaultDecimalFormatOptions"), "defaultFormatString")
                        = Undefined
                 /\ CfgGet(cfg, "decimalFormat") # Undefined
              THEN Put(s2, "defaultDecimalFormatOptions",
                       Obj([j \in {"defaultFormatString"} |-> CfgGet(cfg, "decimalFormat")]))
              ELSE s2
        s4 == IF /\ Get(Get(s3, "defaultIntegerFormatOptions"), "defaultFormatString")
                        = Undefined
                 /\ CfgGet(cfg, "integerFormat") # Undefined
              THEN Put(s3, "defaultIntegerFormatOptions",
                       Obj([j \in {"defaultFormatString"} |-> CfgGet(cfg, "integerFormat")]))
              ELSE s3
        s5 == IF Get(s4, "truncateNumbersWithPound") = Undefined
              THEN Put(s4, "truncateNumbersWithPound",
                       getBooleanServerConfig(cfg, "truncateNumbersWithPound"))
              ELSE s4
        s6 == IF /\ Get(Get(s5, "defaultNotebookSettings"), "isMinimapEnabled") = Undefined
                 /\ CfgGet(cfg, "isMinimapEnabled") # Undefined
              THEN Put(s5, "defaultNotebookSettings",
                       Obj([j \in {"isMinimapEnabled"} |->
                               getBooleanServerConfig(cfg, "isMinimapEnabled")]))
              ELSE s5
    IN Put(workspace, "settings", s6)

Resolved(v) == [status |-> "resolved", value |-> v]
Rejected(e) == [status |-> "rejected", value |-> Str(e)]

getItem(storage, key) == IF key \in DOMAIN storage THEN <<storage[key]>> ELSE << >>

\* load() with its try/catch left out: a failure would reject the promise
loadWithoutCatch(storage, ls, options, cfg) ==
    LET item == getItem(storage, STORAGE_KEY)
        text == IF item = << >> THEN EmptyText ELSE item[1]
    IN IF JsonParseThrows(text) THEN Rejected("SyntaxError")
       ELSE IF LoadFillThrows(JsonParse(text)) THEN Rejected("TypeError")
       ELSE Resolved(LoadFill(JsonParse(text), cfg))

load(storage, ls, options, cfg) ==
    LET item == getItem(storage, STORAGE_KEY)
        text == IF item = << >> THEN EmptyText ELSE item[1]
    IN IF JsonParseThrows(text) \/ LoadFillThrows(JsonParse(text))
       THEN Resolved(makeDefaultWorkspace(ls, options, cfg))
       ELSE Resolved(LoadFill(JsonParse(text), cfg))

setItem(storage, key, text) ==
    [k \in DOMAIN storage \cup {key} |-> IF k = key THEN text ELSE storage[k]]

\* The workspaces the application saves: a default workspace, possibly with a
\* setting, the links or the layout changed by the user.
UserEdits == {"none", "timeZone", "links", "decimalFormat", "clearTimeZone"}

EditWorkspace(w, edit) ==
    LET data == Get(w, "data")
        settings == Get(data, "settings")
    IN CASE edit = "timeZone" ->
              Put(w, "data", Put(data, "settings", Put(settings, "timeZone", Str("Asia/Tokyo"))))
         [] edit = "clearTimeZone" ->
              Put(w, "data", Put(data, "settings", Put(settings, "timeZone", Undefined)))
         [] edit = "decimalFormat" ->
              Put(w, "data", Put(data, "settings",
                  Put(settings, "defaultDecimalFormatOptions",
                      Obj([j \in {"defaultFormatString"} |-> Str("#.#")]))))
         [] edit = "links" -> Put(w, "data", Put(data, "links", Arr(<<"userLink">>)))
         [] OTHER -> w

Workspaces ==
    { EditWorkspace(makeDefaultWorkspace(ls, o, c), e) :
        ls \in LayoutStorages, o \in {<<TRUE>>}, c \in ServerConfigs, e \in UserEdits }

\* Texts another tab, an older version or the user may have left under the key
LegacyWorkspace(cfg) ==
    Put(Get(makeDefaultWorkspace("layoutsA", << >>, cfg), "data"), "settings",
        Put(Put(Put(Get(Get(makeDefaultWorkspace("layoutsA", << >>, cfg), "data"), "settings"),
                    "defaultDecimalFormatOptions", Obj(EmptyMap)),
                "defaultIntegerFormatOptions", Obj(EmptyMap)),
            "defaultNotebookSettings", Obj(EmptyMap)))

ForeignTexts ==
    { GarbageText, EmptyText, [kind |-> "json", val |-> JsNull],
      [kind |-> "json", val |-> Obj(EmptyMap)] }
    \cup { JsonStringify(LegacyWorkspace(c)) : c \in ServerConfigs }

StoredKind(storage) ==
    LET item == getItem(storage, STORAGE_KEY)
    IN IF item = << >> THEN "absent" ELSE item[1].kind

InitStorage ==
    /\ localStorage = [k \in {} |-> EmptyText]
    /\ layoutStorage \in LayoutStorages
    /\ loadCall = << >>
    /\ loadResult = << >>
    /\ saveCall = << >>
    /\ saveResult = << >>
    /\ NotStorageIdle

Load(options, cfg) ==
    /\ loadCall' = <<[options |-> options, cfg |-> cfg, stored |-> StoredKind(localStorage),
                      storage |-> localStorage]>>
    /\ loadResult' = <<load(localStorage, layoutStorage, options, cfg)>>
    /\ UNCHANGED <<localStorage, layoutStorage, saveCall, saveResult, notStorageVars>>

Save(w) ==
    /\ localStorage' = setItem(localStorage, STORAGE_KEY, JsonStringify(w))
    /\ saveCall' = <<w>>
    /\ saveResult' = <<Resolved(w)>>
    /\ loadCall' = << >>
    /\ loadResult' = << >>
    /\ UNCHANGED <<layoutStorage, notStorageVars>>

\* localStorage is shared with the rest of the page
ForeignSetItem(text) ==
    /\ localStorage' = setItem(localStorage, STORAGE_KEY, text)
    /\ saveCall' = << >>
    /\ saveResult' = << >>
    /\ loadCall' = << >>
    /\ loadResult' = << >>
    /\ UNCHANGED <<layoutStorage, notStorageVars>>

ForeignRemoveItem ==
    /\ STORAGE_KEY \in DOMAIN localStorage
    /\ localStorage' = [k \in DOMAIN localStorage \ {STORAGE_KEY} |-> localStorage[k]]
    /\ saveCall' = << >>
    /\ saveResult' = << >>
    /\ loadCall' = << >>
    /\ loadResult' = << >>
    /\ UNCHANGED <<layoutStorage, notStorageVars>>

NextStorage ==
    \/ \E o \in LoadOptions, c \in ServerConfigs : Load(o, c)
    \/ \E w \in Workspaces : Save(w)
    \/ \E text \in ForeignTexts : ForeignSetItem(text)
    \/ ForeignRemoveItem

SpecStorage == InitStorage /\ [][NextStorage]_vars

(***************************************************************************)
(* Claims about LocalWorkspaceStorage                                      *)
(***************************************************************************)

\* C1: when the value stored under STORAGE_KEY is absent or is not parseable
\* JSON, load() resolves (it does not reject) with the default workspace that
\* makeDefaultWorkspace builds from the load options and the server config.
C1_LoadFallsBackToDefault ==
    (loadCall # << >> /\ loadCall[1].stored \in {"absent", "empty", "garbage"})
        => loadResult[1] = Resolved(makeDefaultWorkspace(layoutStorage,
                                        loadCall[1].options, loadCall[1].cfg))

C1_Witness ==
    /\ loadCall # << >>
    /\ loadCall[1].stored = "garbage"
    /\ DOMAIN loadCall[1].cfg # {}
    /\ loadResult[1].status = "resolved"

\* What a load() after save(w) is expected to return: the parsed blob, with
\* the undefined settings of data.settings filled in from the server config.
ExpectedAfterSave(w, cfg) ==
    LET blob == JsonParse(JsonStringify(w))
    IN Put(blob, "data", LoadFill(Get(blob, "data"), cfg))

\* C2: save(w) stores w as one JSON blob under STORAGE_KEY and returns w, and
\* a following load() returns the saved workspace (the parsed blob with only
\* the undefined settings filled in), not a newly built default workspace.
C2_SaveLoadRoundTrip ==
    /\ saveCall # << >> =>
          /\ saveResult[1] = Resolved(saveCall[1])
          /\ DOMAIN localStorage = {STORAGE_KEY}
          /\ localStorage[STORAGE_KEY] = JsonStringify(saveCall[1])
    /\ (saveCall # << >> /\ loadCall # << >>) =>
          loadResult[1] = Resolved(ExpectedAfterSave(saveCall[1], loadCall[1].cfg))

(***************************************************************************)
(* Columns of a table: dh.Column, with its name and its type               *)
(***************************************************************************)
Column(name, type) == [name |-> name, type |-> type]

StringType == "java.lang.String"
LongType == "long"
DateType == "io.deephaven.time.DateTime"
IntType == "int"

ColumnLists ==
    { <<Column("A", StringType), Column("B", LongType)>>,
      <<Column("A", StringType), Column("B", LongType), Column("C", DateType)>>,
      <<Column("B", LongType), Column("D", IntType), Column("A", StringType)>> }

ColumnNames(columns) == [i \in 1..Len(columns) |-> columns[i].name]

UniqueNames(columns) ==
    \A i, j \in 1..Len(columns) : columns[i].name = columns[j].name => i = j

\* Array.prototype.findIndex(name => name === wanted): 0-based, -1 when absent
FindIndex(names, wanted) ==
    IF \E i \in 1..Len(names) : names[i] = wanted
    THEN (CHOOSE i \in 1..Len(names) :
              names[i] = wanted /\ \A j \in 1..(i - 1) : names[j] # wanted) - 1
    ELSE -1

Num(n) == [t |-> "number", v |-> n]
IsString(v) == v.t = "string"

(***************************************************************************)
(* IrisGridUtils.dehydrateGridState / hydrateGridState                     *)
(***************************************************************************)
MaxMoves == 2

\* Move indices a grid state may hold: -1 and 2 lie outside a two column table
MoveIndexes == -1..2

Moves == [from : MoveIndexes, to : MoveIndexes]

RECURSIVE SeqsUpTo(_, _)
SeqsUpTo(S, n) ==
    IF n = 0 THEN { << >> }
    ELSE LET shorter == SeqsUpTo(S, n - 1)
         IN shorter \cup { Append(q, x) : q \in {r \in shorter : Len(r) = n - 1}, x \in S }

GridStates ==
    { [isStuckToBottom |-> b, isStuckToRight |-> ~b, movedColumns |-> mc, movedRows |-> mr] :
        b \in BOOLEAN, mc \in SeqsUpTo(Moves, MaxMoves),
        mr \in { << >>, <<[from |-> 0, to |-> 1]>> } }

\* the same, with the names of the two columns of each move exchanged
dehydrateGridStateSwapped(columns, gridState) ==
    LET inRange(m) == /\ m.to >= 0 /\ m.to < Len(columns)
                      /\ m.from >= 0 /\ m.from < Len(columns)
        name(m) == [to |-> Str(columns[m.from + 1].name),
                    from |-> Str(columns[m.to + 1].name)]
        kept == SelectSeq(gridState.movedColumns, inRange)
    IN [isStuckToBottom |-> gridState.isStuckToBottom,
        isStuckToRight |-> gridState.isStuckToRight,
        movedColumns |-> [i \in 1..Len(kept) |-> name(kept[i])],
        movedRows |-> gridState.movedRows]

dehydrateGridState(columns, gridState) ==
    LET inRange(m) == /\ m.to >= 0 /\ m.to < Len(columns)
                      /\ m.from >= 0 /\ m.from < Len(columns)
        name(m) == [to |-> Str(columns[m.to + 1].name),
                    from |-> Str(columns[m.from + 1].name)]
        kept == SelectSeq(gridState.movedColumns, inRange)
    IN [isStuckToBottom |-> gridState.isStuckToBottom,
        isStuckToRight |-> gridState.isStuckToRight,
        movedColumns |-> [i \in 1..Len(kept) |-> name(kept[i])],
        movedRows |-> gridState.movedRows]

\* A custom column is the string "name=formula", held as <<name, formula>>
parseCustomColumnNames(customColumns) ==
    [i \in 1..Len(customColumns) |-> customColumns[i][1]]

Thrown(e) == [threw |-> e]
IsThrown(r) == "threw" \in DOMAIN r

hydrateGridState(columns, gridState, customColumns) ==
    LET columnNames == ColumnNames(columns) \o parseCustomColumnNames(customColumns)
        mixed(m) == IsString(m.to) # IsString(m.from)
        index(m) ==
            IF IsString(m.to) /\ IsString(m.from)
            THEN [to |-> FindIndex(columnNames, m.to.v),
                  from |-> FindIndex(columnNames, m.from.v)]
            ELSE [to |-> m.to.v, from |-> m.from.v]
        inRange(m) == /\ m.to >= 0 /\ m.to < Len(columnNames)
                      /\ m.from >= 0 /\ m.from < Len(columnNames)
    IN IF \E i \in 1..Len(gridState.movedColumns) : mixed(gridState.movedColumns[i])
       THEN Thrown("string")
       ELSE [isStuckToBottom |-> gridState.isStuckToBottom,
             isStuckToRight |-> gridState.isStuckToRight,
             movedColumns |->
                 SelectSeq([i \in 1..Len(gridState.movedColumns) |->
                               index(gridState.movedColumns[i])], inRange),
             movedRows |-> gridState.movedRows]

InitGridState ==
    /\ gsColumns \in ColumnLists
    /\ gsGridState \in GridStates
    /\ gsDehydrated = << >>
    /\ gsHydrateColumns = << >>
    /\ gsHydrated = << >>
    /\ NotGridStateIdle

DehydrateGridState ==
    /\ gsDehydrated = << >>
    /\ gsDehydrated' = <<dehydrateGridState(gsColumns, gsGridState)>>
    /\ UNCHANGED <<gsColumns, gsGridState, gsHydrateColumns, gsHydrated, notGridStateVars>>

\* The dashboard is loaded again; the table may have other columns by then
HydrateGridState(columns) ==
    /\ gsDehydrated # << >>
    /\ gsHydrated = << >>
    /\ gsHydrateColumns' = <<columns>>
    /\ gsHydrated' = <<hydrateGridState(columns, gsDehydrated[1], << >>)>>
    /\ UNCHANGED <<gsColumns, gsGridState, gsDehydrated, notGridStateVars>>

NextGridState ==
    \/ DehydrateGridState
    \/ \E columns \in ColumnLists : HydrateGridState(columns)

SpecGridState == InitGridState /\ [][NextGridState]_vars

\* The column moves of a grid state that lie within the columns
MovesInRange(columns, gridState) ==
    \A i \in 1..Len(gridState.movedColumns) :
        /\ gridState.movedColumns[i].to \in 0..(Len(columns) - 1)
        /\ gridState.movedColumns[i].from \in 0..(Len(columns) - 1)

\* The moves of s that survive: within the columns of then, with both of their
\* columns still there now, as the indices of those columns now
SurvivingMoves(then, now, s) ==
    LET names == {now[i].name : i \in 1..Len(now)}
        survives(m) == /\ m.to \in 0..(Len(then) - 1) /\ m.from \in 0..(Len(then) - 1)
                       /\ then[m.to + 1].name \in names
                       /\ then[m.from + 1].name \in names
        position(n) == (CHOOSE i \in 1..Len(now) : now[i].name = n) - 1
        moved(m) == [to |-> position(then[m.to + 1].name),
                     from |-> position(then[m.from + 1].name)]
        kept == SelectSeq(s.movedColumns, survives)
    IN [i \in 1..Len(kept) |-> moved(kept[i])]

\* C5: for unique column names, hydrateGridState(model, dehydrateGridState(model, s))
\* equals s when all column moves of s have from and to in [0, columnCount);
\* moves with an index outside that range, or naming a column that no longer
\* exists, are dropped and never appear in the hydrated result.
C5_GridStateRoundTrip ==
    gsHydrated # << >> =>
        LET h == gsHydrated[1]
            now == gsHydrateColumns[1]
        IN /\ ~IsThrown(h)
           /\ (now = gsColumns /\ MovesInRange(gsColumns, gsGridState)) => h = gsGridState
           /\ h.isStuckToBottom = gsGridState.isStuckToBottom
           /\ h.isStuckToRight = gsGridState.isStuckToRight
           /\ h.movedRows = gsGridState.movedRows
           /\ h.movedColumns = SurvivingMoves(gsColumns, now, gsGridState)
           /\ \A i \in 1..Len(h.movedColumns) :
                 /\ h.movedColumns[i].to \in 0..(Len(now) - 1)
                 /\ h.movedColumns[i].from \in 0..(Len(now) - 1)

\* a round trip over unchanged columns of a state with two moves in range
C5_Witness ==
    /\ gsHydrated # << >>
    /\ gsHydrateColumns[1] = gsColumns
    /\ MovesInRange(gsColumns, gsGridState)
    /\ Len(gsGridState.movedColumns) = 2
    /\ gsGridState.movedColumns[1].to # gsGridState.movedColumns[1].from
    /\ gsHydrated[1].movedColumns = gsGridState.movedColumns

(***************************************************************************)
(* Values of table cells and their dehydrated forms                        *)
(***************************************************************************)
LongWrapper(n) == [t |-> "LongWrapper", n |-> n]
DateWrapper(nanos) == [t |-> "DateWrapper", nanos |-> nanos]
\* the decimal digits of n, and a date in DateUtils.FULL_DATE_FORMAT
DecimalString(n) == [t |-> "string", dec |-> n]
DateString(nanos) == [t |-> "string", date |-> nanos]

\* CellData: {value, format?}
CellData(v) == Obj([k \in {"value"} |-> v])

Threw(v) == v.t = "throw"
JsThrow(e) == [t |-> "throw", error |-> e]

\* TableUtils.isDateType, TableUtils.isLongType
isDateType(columnType) ==
    columnType \in {"io.deephaven.time.DateTime", "io.deephaven.db.tables.utils.DBDateTime",
                    "com.illumon.iris.db.tables.utils.DBDateTime"}
isLongType(columnType) == columnType \in {"long", "java.lang.Long"}

\* dh.i18n.DateTimeFormat.format(pattern, value): a date wrapper or a number of
\* milliseconds is formatted, any other value is refused
DateTimeFormat_format(value) ==
    CASE value.t = "DateWrapper" -> DateString(value.nanos)
      [] value.t = "number" -> DateString(value.v)
      [] OTHER -> JsThrow("Unsupported date value")

\* dh.i18n.DateTimeFormat.parse(pattern, text)
DateTimeFormat_parse(text) ==
    IF text.t = "string" /\ "date" \in DOMAIN text THEN DateWrapper(text.date)
    ELSE JsThrow("Unparseable date")

\* `${value}`
TemplateString(value) ==
    CASE value.t = "LongWrapper" -> DecimalString(value.n)
      [] value.t = "number" -> DecimalString(value.v)
      [] value.t = "string" -> value
      [] OTHER -> Str("[object Object]")

\* dh.LongWrapper.ofString(text)
LongWrapper_ofString(text) ==
    IF text.t = "string" /\ "dec" \in DOMAIN text THEN LongWrapper(text.dec)
    ELSE JsThrow("NumberFormatException")

dehydrateDateTime(value) == IF ~Nullish(value) THEN DateTimeFormat_format(value) ELSE JsNull
hydrateDateTime(value) == IF ~Nullish(value) THEN DateTimeFormat_parse(value) ELSE JsNull
dehydrateLong(value) == IF ~Nullish(value) THEN TemplateString(value) ELSE JsNull
hydrateLong(value) == IF ~Nullish(value) THEN LongWrapper_ofString(value) ELSE JsNull

dehydrateValue(value, columnType) ==
    IF isDateType(columnType) THEN dehydrateDateTime(value)
    ELSE IF isLongType(columnType) THEN dehydrateLong(value)
    ELSE value

hydrateValue(value, columnType) ==
    IF isDateType(columnType) THEN hydrateDateTime(value)
    ELSE IF isLongType(columnType) THEN hydrateLong(value)
    ELSE value

(***************************************************************************)
(* JavaScript Maps, as the sequence of their <<key, value>> entries in     *)
(* insertion order                                                         *)
(***************************************************************************)
MapKeys(m) == {m[i][1] : i \in 1..Len(m)}
MapGet(m, k) == m[CHOOSE i \in 1..Len(m) : m[i][1] = k][2]
MapSet(m, k, v) ==
    IF k \in MapKeys(m)
    THEN [i \in 1..Len(m) |-> IF m[i][1] = k THEN <<k, v>> ELSE m[i]]
    ELSE Append(m, <<k, v>>)

\* new Map(entries)
RECURSIVE MapOf(_)
MapOf(entries) ==
    IF entries = << >> THEN << >>
    ELSE LET n == Len(entries)
         IN MapSet(MapOf(SubSeq(entries, 1, n - 1)), entries[n][1], entries[n][2])

\* What a call that did not throw returned
Returned(x) == [returned |-> x]

DistinctSeqs(S, n) ==
    {q \in SeqsUpTo(S, n) : \A i, j \in 1..Len(q) : q[i] = q[j] => i = j}

(***************************************************************************)
(* IrisGridUtils.dehydratePendingDataMap / hydratePendingDataMap           *)
(***************************************************************************)
MaxPendingRows == 2
MaxCells == 2

PendingRowIndexes == {0, 1}

\* The value the model holds for an edited cell of a column: setValueForRanges
\* and setValues store {value: TableUtils.makeValue(column.type, text)}
CellFor(column) ==
    CASE isDateType(column.type) -> CellData(DateWrapper(5))
      [] isLongType(column.type) -> CellData(LongWrapper(7))
      [] column.type = IntType -> CellData(Num(3))
      [] OTHER -> CellData(Str("x"))

RowDatas(columns) ==
    { [i \in 1..Len(q) |-> <<q[i], CellFor(columns[q[i] + 1])>>] :
        q \in DistinctSeqs(0..(Len(columns) - 1), MaxCells) \ { << >> } }

PendingDataMaps(columns) ==
    { [i \in 1..Len(rows) |-> <<rows[i], [data |-> d[i]]>>] :
        rows \in DistinctSeqs(PendingRowIndexes, MaxPendingRows),
        d \in [1..MaxPendingRows -> RowDatas(columns)] }

dehydratePendingDataMap(columns, pendingDataMap) ==
    LET cell(e) == <<columns[e[1] + 1].name, dehydrateValue(e[2], columns[e[1] + 1].type)>>
        row(r) == <<r[1], [data |-> [i \in 1..Len(r[2].data) |-> cell(r[2].data[i])]]>>
        result == [i \in 1..Len(pendingDataMap) |-> row(pendingDataMap[i])]
    IN IF \E i \in 1..Len(result) : \E j \in 1..Len(result[i][2].data) :
              Threw(result[i][2].data[j][2])
       THEN Thrown("dehydrateValue")
       ELSE Returned(result)

hydratePendingDataMap(columns, pendingDataMap) ==
    LET getColumnIndex(columnName) == FindIndex(ColumnNames(columns), columnName)
        missing(e) == getColumnIndex(e[1]) < 0
        cell(e) == <<getColumnIndex(e[1]),
                     hydrateValue(e[2], columns[getColumnIndex(e[1]) + 1].type)>>
        cells(r) == [i \in 1..Len(r[2].data) |->
                        IF missing(r[2].data[i]) THEN <<-1, JsThrow("TypeError")>>
                        ELSE cell(r[2].data[i])]
        rows == [i \in 1..Len(pendingDataMap) |-> <<pendingDataMap[i][1],
                                                    cells(pendingDataMap[i])>>]
    IN IF \E i \in 1..Len(rows) : \E j \in 1..Len(rows[i][2]) : Threw(rows[i][2][j][2])
       THEN Thrown("hydrateValue")
       ELSE Returned(MapOf([i \in 1..Len(rows) |->
                               <<rows[i][1], [data |-> MapOf(rows[i][2])]>>]))

InitPendingDataMap ==
    /\ pdColumns \in ColumnLists
    /\ pdMap \in PendingDataMaps(pdColumns)
    /\ pdDehydrated = << >>
    /\ pdHydrated = << >>
    /\ NotPendingDataMapIdle

DehydratePendingDataMap ==
    /\ pdDehydrated = << >>
    /\ pdDehydrated' = <<dehydratePendingDataMap(pdColumns, pdMap)>>
    /\ UNCHANGED <<pdColumns, pdMap, pdHydrated, notPendingDataMapVars>>

HydratePendingDataMap ==
    /\ pdDehydrated # << >>
    /\ ~IsThrown(pdDehydrated[1])
    /\ pdHydrated = << >>
    /\ pdHydrated' = <<hydratePendingDataMap(pdColumns, pdDehydrated[1].returned)>>
    /\ UNCHANGED <<pdColumns, pdMap, pdDehydrated, notPendingDataMapVars>>

NextPendingDataMap ==
    \/ DehydratePendingDataMap
    \/ HydratePendingDataMap

SpecPendingDataMap == InitPendingDataMap /\ [][NextPendingDataMap]_vars

\* The rows of a pending data map and the cells of each row, whatever their order
PendingContent(m) ==
    { <<m[i][1], {m[i][2].data[j] : j \in 1..Len(m[i][2].data)}>> : i \in 1..Len(m) }

\* C6: for every pending data map m whose column indices are valid,
\* hydratePendingDataMap(columns, dehydratePendingDataMap(columns, m)) has the
\* row indices of m and, for each row, the same column indices mapped to the
\* same cell values, for every column type including date and long columns.
C6_PendingDataRoundTrip ==
    /\ pdDehydrated # << >> => ~IsThrown(pdDehydrated[1])
    /\ pdHydrated # << >> =>
          /\ ~IsThrown(pdHydrated[1])
          /\ PendingContent(pdHydrated[1].returned) = PendingContent(pdMap)

(***************************************************************************)
(* IrisGridUtils.hydrateQuickFilters, hydrateAdvancedFilters,              *)
(* getFiltersFromInputFilters and getFiltersFromFilterMap                  *)
(***************************************************************************)
MaxFilters == 2

IsNullish(v) == "t" \in DOMAIN v /\ v.t \in {"undefined", "null"}
NotNullish(v) == ~IsNullish(v)

\* columns[columnIndex] below columns.length, null from there on
getColumn(columns, columnIndex) ==
    IF columnIndex < Len(columns)
    THEN (IF columnIndex >= 0 THEN columns[columnIndex + 1] ELSE Undefined)
    ELSE JsNull

FilterCondition(column, text) ==
    [t |-> "FilterCondition", column |-> column.name, text |-> text]

\* Filter texts: nothing typed, a complete value, an incomplete or invalid value
EmptyFilterText == ""
InvalidFilterText == ">="
FilterTexts == {EmptyFilterText, "x", InvalidFilterText}

\* TableUtils.makeQuickFilter(column, text, timeZone): a filter condition, null
\* when there is nothing to filter by, or an error when the text is not a
\* value of the type of the column
makeQuickFilter(column, text) ==
    IF text = EmptyFilterText THEN JsNull
    ELSE IF text = InvalidFilterText /\ column.type # StringType
         THEN JsThrow("Unable to create filter")
         ELSE FilterCondition(column, text)

\* Advanced filter options: {filterItems, selectedValues, ...}
Options(filterItems, selectedValues) ==
    [t |-> "object", filterItems |-> filterItems, selectedValues |-> selectedValues]

\* TableUtils.makeAdvancedFilter(column, options, timeZone)
makeAdvancedFilter(column, options) ==
    IF options.filterItems = InvalidFilterText /\ column.type # StringType
    THEN JsThrow("Unable to create filter")
    ELSE FilterCondition(column, options.filterItems)

hydrateAdvancedFilterOptions(column, options) ==
    LET selectedValues == [i \in 1..Len(options.selectedValues) |->
                              hydrateValue(options.selectedValues[i], column.type)]
    IN IF \E i \in 1..Len(selectedValues) : Threw(selectedValues[i])
       THEN JsThrow("hydrateValue")
       ELSE Options(options.filterItems, selectedValues)

\* The callback hydrateQuickFilters maps the saved quick filters with, without
\* its try and catch
importQuickFilterUncaught(columns, saved) ==
    LET column == getColumn(columns, saved[1])
    IN <<saved[1], [text |-> saved[2].text,
                    filter |-> IF NotNullish(column)
                               THEN makeQuickFilter(column, saved[2].text)
                               ELSE JsNull]>>

hydrateQuickFiltersUncaught(columns, savedQuickFilters) ==
    LET importedFilters == [i \in 1..Len(savedQuickFilters) |->
                               importQuickFilterUncaught(columns, savedQuickFilters[i])]
    IN IF \E i \in 1..Len(importedFilters) : Threw(importedFilters[i][2].filter)
       THEN Thrown("makeQuickFilter")
       ELSE Returned(MapOf(importedFilters))

\* The callback hydrateQuickFilters maps the saved quick filters with
importQuickFilter(columns, saved) ==
    LET column == getColumn(columns, saved[1])
        made == IF NotNullish(column) THEN makeQuickFilter(column, saved[2].text)
                ELSE JsNull
    IN <<saved[1], [text |-> saved[2].text,
                    filter |-> IF Threw(made) THEN JsNull ELSE made]>>

hydrateQuickFilters(columns, savedQuickFilters) ==
    Returned(MapOf([i \in 1..Len(savedQuickFilters) |->
                      importQuickFilter(columns, savedQuickFilters[i])]))

\* The callback hydrateAdvancedFilters maps the saved advanced filters with:
\* the entry it returns, or the error it throws
importAdvancedFilter(columns, saved) ==
    LET column == getColumn(columns, saved[1])
        options == hydrateAdvancedFilterOptions(column, saved[2].options)
        made == makeAdvancedFilter(column, options)
    IN IF IsNullish(column) THEN Thrown("assertNotNull")
       ELSE IF Threw(options) THEN Thrown(options.error)
       ELSE Returned(<<saved[1], [options |-> options,
                                  filter |-> IF Threw(made) THEN JsNull ELSE made]>>)

hydrateAdvancedFilters(columns, savedAdvancedFilters) ==
    LET importedFilters == [i \in 1..Len(savedAdvancedFilters) |->
                               importAdvancedFilter(columns, savedAdvancedFilters[i])]
        failed == {i \in 1..Len(importedFilters) : IsThrown(importedFilters[i])}
    IN IF failed # {}
       THEN importedFilters[CHOOSE i \in failed : \A j \in failed : i <= j]
       ELSE Returned(MapOf([i \in 1..Len(importedFilters) |->
                               importedFilters[i].returned]))

getFiltersFromFilterMap(filterMap) ==
    SelectSeq([i \in 1..Len(filterMap) |-> filterMap[i][2].filter], NotNullish)

\* columns.find(column => column.name === name && column.type === type)
FindColumn(columns, name, type) ==
    LET matching == {i \in 1..Len(columns) :
                        columns[i].name = name /\ columns[i].type = type}
    IN IF matching = {} THEN Undefined
       ELSE columns[CHOOSE i \in matching : \A j \in matching : i <= j]

getFiltersFromInputFilters(columns, inputFilters) ==
    LET filterOf(inputFilter) ==
            LET column == FindColumn(columns, inputFilter.name, inputFilter.type)
                made == makeQuickFilter(column, inputFilter.value)
            IN IF IsNullish(column) THEN JsNull
               ELSE IF Threw(made) THEN JsNull
               ELSE made
    IN Returned(SelectSeq([i \in 1..Len(inputFilters) |-> filterOf(inputFilters[i])],
                          NotNullish))

FilterIndexes == 0..3

SavedQuickFilters ==
    { [i \in 1..Len(q) |-> <<q[i], [text |-> texts[i]]>>] :
        q \in DistinctSeqs(FilterIndexes, MaxFilters),
        texts \in [1..MaxFilters -> FilterTexts] }

SelectedValues == {<< >>, <<Str("x")>>, <<DecimalString(7)>>}

SavedAdvancedFilters ==
    { [i \in 1..Len(q) |-> <<q[i], [options |-> options[i]]>>] :
        q \in DistinctSeqs(FilterIndexes, MaxFilters),
        options \in [1..MaxFilters ->
                        {Options(text, selected) : text \in FilterTexts \ {EmptyFilterText},
                                                   selected \in SelectedValues}] }

InputFilters ==
    SeqsUpTo([name : {"A", "B", "Z"}, type : {StringType, LongType}, value : FilterTexts],
             MaxFilters)

InitFilters ==
    /\ fColumns \in ColumnLists
    /\ fCall = << >>
    /\ fResult = << >>
    /\ NotFiltersIdle

HydrateQuickFilters(savedQuickFilters) ==
    /\ fCall = << >>
    /\ fCall' = <<[op |-> "hydrateQuickFilters", arg |-> savedQuickFilters]>>
    /\ fResult' = <<hydrateQuickFilters(fColumns, savedQuickFilters)>>
    /\ UNCHANGED <<fColumns, notFiltersVars>>

HydrateAdvancedFilters(savedAdvancedFilters) ==
    /\ fCall = << >>
    /\ fCall' = <<[op |-> "hydrateAdvancedFilters", arg |-> savedAdvancedFilters]>>
    /\ fResult' = <<hydrateAdvancedFilters(fColumns, savedAdvancedFilters)>>
    /\ UNCHANGED <<fColumns, notFiltersVars>>

GetFiltersFromInputFilters(inputFilters) ==
    /\ fCall = << >>
    /\ fCall' = <<[op |-> "getFiltersFromInputFilters", arg |-> inputFilters]>>
    /\ fResult' = <<getFiltersFromInputFilters(fColumns, inputFilters)>>
    /\ UNCHANGED <<fColumns, notFiltersVars>>

NextFilters ==
    \/ \E saved \in SavedQuickFilters : HydrateQuickFilters(saved)
    \/ \E saved \in SavedAdvancedFilters : HydrateAdvancedFilters(saved)
    \/ \E inputFilters \in InputFilters : GetFiltersFromInputFilters(inputFilters)

SpecFilters == InitFilters /\ [][NextFilters]_vars

FiltersCalled(op) == fCall # << >> /\ fCall[1].op = op

\* A saved quick filter whose column is missing or whose filter cannot be built
QuickFilterFails(columns, saved) ==
    \/ saved[1] \notin 0..(Len(columns) - 1)
    \/ ~(makeQuickFilter(columns[saved[1] + 1], saved[2].text).t = "FilterCondition")

\* An input filter that matches no column by name and type or cannot be built
InputFilterFails(columns, inputFilter) ==
    \/ \A i \in 1..Len(columns) :
          columns[i].name # inputFilter.name \/ columns[i].type # inputFilter.type
    \/ ~(makeQuickFilter(FindColumn(columns, inputFilter.name, inputFilter.type),
                         inputFilter.value).t = "FilterCondition")

\* C8: hydrateQuickFilters never throws: it returns, for every saved quick
\* filter, an entry for its column index with the saved text, whose filter is
\* null when the column is missing or the filter cannot be built and the built
\* filter otherwise, and getFiltersFromFilterMap yields the built filters only.
\* getFiltersFromInputFilters never throws: it returns, in their order, the
\* filters of the input filters that match a column and can be built.
C8_FilterFailuresDoNotPropagate ==
    /\ FiltersCalled("hydrateQuickFilters") =>
          LET saved == fCall[1].arg
              result == fResult[1]
              good == SelectSeq(saved, LAMBDA e : ~QuickFilterFails(fColumns, e))
          IN /\ ~IsThrown(result)
             /\ MapKeys(result.returned) = {saved[i][1] : i \in 1..Len(saved)}
             /\ \A i \in 1..Len(saved) :
                   LET entry == MapGet(result.returned, saved[i][1])
                   IN /\ entry.text = saved[i][2].text
                      /\ QuickFilterFails(fColumns, saved[i]) <=> entry.filter = JsNull
                      /\ ~QuickFilterFails(fColumns, saved[i]) =>
                            entry.filter = FilterCondition(fColumns[saved[i][1] + 1],
                                                           saved[i][2].text)
             /\ getFiltersFromFilterMap(result.returned) =
                   [i \in 1..Len(good) |->
                       FilterCondition(fColumns[good[i][1] + 1], good[i][2].text)]
    /\ FiltersCalled("getFiltersFromInputFilters") =>
          LET inputFilters == fCall[1].arg
              result == fResult[1]
              good == SelectSeq(inputFilters, LAMBDA e : ~InputFilterFails(fColumns, e))
          IN /\ ~IsThrown(result)
             /\ result.returned =
                   [i \in 1..Len(good) |->
                       FilterCondition(FindColumn(fColumns, good[i].name, good[i].type),
                                       good[i].value)]

\* hydrateQuickFilters was given a filter that cannot be built, a filter whose
\* column is missing, and before them a filter that can be built
C8_Witness ==
    /\ FiltersCalled("hydrateQuickFilters")
    /\ Len(fCall[1].arg) = 2
    /\ ~QuickFilterFails(fColumns, fCall[1].arg[1])
    /\ fCall[1].arg[2][1] < Len(fColumns)
    /\ QuickFilterFails(fColumns, fCall[1].arg[2])
    /\ fCall[1].arg[2][2].text = InvalidFilterText
    /\ Len(getFiltersFromFilterMap(fResult[1].returned)) = 1

\* A saved advanced filter whose column index no longer refers to a column or
\* whose filter cannot be built
AdvancedFilterFails(columns, saved) ==
    \/ saved[1] \notin 0..(Len(columns) - 1)
    \/ Threw(makeAdvancedFilter(columns[saved[1] + 1], saved[2].options))

\* C9: hydrateAdvancedFilters never throws: for every saved advanced filter
\* whose column index no longer refers to a column, or whose filter cannot be
\* built, it returns an entry for that column index with filter = null, and
\* the other saved advanced filters are hydrated with their filter.
C9_AdvancedFilterFailuresDoNotPropagate ==
    FiltersCalled("hydrateAdvancedFilters") =>
        LET saved == fCall[1].arg
            result == fResult[1]
        IN /\ ~IsThrown(result)
           /\ MapKeys(result.returned) = {saved[i][1] : i \in 1..Len(saved)}
           /\ \A i \in 1..Len(saved) :
                 AdvancedFilterFails(fColumns, saved[i]) <=>
                     MapGet(result.returned, saved[i][1]).filter = JsNull

(***************************************************************************)
(* IrisGridTableModel: rows of the grid and the cached viewport data.      *)
(* The operators take the fields of the model they read as a record m.     *)
(***************************************************************************)
MaxTableSize == 2
MaxOffset == 1
MaxViewportRows == 2
MaxPendingRowCount == 1

totalsRowCount(m) == IF IsNullish(m.totals) THEN 0 ELSE Len(m.totals.operationOrder)
showOnTop(m) == IF IsNullish(m.totals) THEN FALSE ELSE m.totals.showOnTop

floatingBottomRowCount(m) == IF showOnTop(m) THEN 0 ELSE totalsRowCount(m)
floatingTopRowCount(m) == IF showOnTop(m) THEN totalsRowCount(m) ELSE 0

totalsRow(m, y) ==
    LET row == IF showOnTop(m) THEN y ELSE y - m.tableSize
    IN IF row >= 0 /\ row < totalsRowCount(m) THEN Num(row) ELSE JsNull

pendingRow(m, y) ==
    LET row == y - floatingTopRowCount(m) - m.tableSize
    IN IF row >= 0 /\ row < m.pendingNewRowCount THEN Num(row) ELSE JsNull

\* map?.get(key) ?? null
MapGetOrNull(map, key) ==
    IF IsNullish(map) THEN JsNull
    ELSE IF key \in MapKeys(map) THEN MapGet(map, key) ELSE JsNull

\* row(y) with the rows of the viewport taken at y, whatever totals are on top
rowWithoutTotalsOffset(m, y) ==
    IF NotNullish(totalsRow(m, y))
    THEN MapGetOrNull(m.totalsDataMap, m.totals.operationOrder[totalsRow(m, y).v + 1])
    ELSE IF NotNullish(pendingRow(m, y))
    THEN MapGetOrNull(m.pendingNewDataMap, pendingRow(m, y).v)
    ELSE LET offset == IF IsNullish(m.viewportData) THEN 0 ELSE m.viewportData.offset
             viewportY == y - offset
         IN IF IsNullish(m.viewportData) \/ viewportY \notin 0..(Len(m.viewportData.rows) - 1)
            THEN JsNull
            ELSE m.viewportData.rows[viewportY + 1]

row(m, y) ==
    IF NotNullish(totalsRow(m, y))
    THEN MapGetOrNull(m.totalsDataMap, m.totals.operationOrder[totalsRow(m, y).v + 1])
    ELSE IF NotNullish(pendingRow(m, y))
    THEN MapGetOrNull(m.pendingNewDataMap, pendingRow(m, y).v)
    ELSE LET offset == IF IsNullish(m.viewportData) THEN 0 ELSE m.viewportData.offset
             viewportY == (IF showOnTop(m) THEN y - totalsRowCount(m) ELSE y) - offset
         IN IF IsNullish(m.viewportData) \/ viewportY \notin 0..(Len(m.viewportData.rows) - 1)
            THEN JsNull
            ELSE m.viewportData.rows[viewportY + 1]

\* row(y)?.data.get(x)
dataForCell(m, x, y) ==
    IF IsNullish(row(m, y)) THEN Undefined
    ELSE IF x \in MapKeys(row(m, y).data) THEN MapGet(row(m, y).data, x) ELSE Undefined

valueForCell(m, x, y) ==
    LET data == dataForCell(m, x, y)
    IN IF NotNullish(data)
       THEN (IF IsNullish(Get(data, "value")) THEN JsNull ELSE Get(data, "value"))
       ELSE JsNull

getColumnIndexByName(columns, name) ==
    IF \E i \in 1..Len(columns) : columns[i].name = name
    THEN Num((CHOOSE i \in 1..Len(columns) :
                 columns[i].name = name /\ \A j \in (i + 1)..Len(columns) : columns[j].name # name)
             - 1)
    ELSE Undefined

\* The row of the viewport: {data: Map of column index -> {value, format}}
extractViewportRow(columns, dataRow, dataColumns) ==
    [data |-> MapOf([c \in 1..Len(dataColumns) |->
                        <<getColumnIndexByName(columns, dataColumns[c].name).v,
                          Obj([k \in {"value", "format"} |->
                                  dataRow[dataColumns[c].name][k]])>>])]

extractViewportData(columns, data) ==
    [t |-> "object", offset |-> data.offset,
     rows |-> [r \in 1..Len(data.rows) |->
                  extractViewportRow(columns, data.rows[r], data.columns)]]

ViewColumns == <<Column("A", StringType), Column("B", LongType), Column("C", DateType)>>

\* The columns a viewport asks for
ColumnSelections ==
    {SubSeq(ViewColumns, a, b) : a \in 1..Len(ViewColumns), b \in 1..Len(ViewColumns)}
        \ { << >> }

\* row.get(column) for the row at an index of the table
TableValue(index, name) ==
    LET c == FindIndex(ColumnNames(ViewColumns), name)
    IN IF (index + c) % 3 = 2 THEN JsNull ELSE Num(index * 10 + c)

\* What an update event of the table delivers: the rows from an offset on and
\* their columns, or no data
EventShapes ==
    [offset : 0..MaxOffset, length : 0..MaxViewportRows, columns : ColumnSelections]
        \cup {Undefined}

\* The detail of an update event of the table: {offset, columns, rows}
EventDetail(shape) ==
    IF IsNullish(shape) THEN shape
    ELSE [offset |-> shape.offset, columns |-> shape.columns,
          rows |-> [r \in 1..shape.length |->
                       [name \in {shape.columns[c].name : c \in 1..Len(shape.columns)} |->
                           [value |-> TableValue(shape.offset + r - 1, name),
                            format |-> JsNull]]]]

TotalsConfigs ==
    {JsNull} \cup
    { [t |-> "object", showOnTop |-> onTop, operationOrder |-> order] :
        onTop \in BOOLEAN, order \in {<<"Sum">>, <<"Sum", "Avg">>} }

\* The fields of the model that row() reads; the totals table has delivered no
\* data and no pending row has been edited
ViewModel ==
    [tableSize |-> vdTableSize, totals |-> vdTotals, totalsDataMap |-> JsNull,
     pendingNewRowCount |-> vdPendingNewRowCount, pendingNewDataMap |-> << >>,
     viewportData |-> vdViewportData]

InitViewportData ==
    /\ vdTableSize \in 0..MaxTableSize
    /\ vdTotals = JsNull
    /\ vdPendingNewRowCount = 0
    /\ vdViewportData = JsNull
    /\ vdFormattedStringData = << >>
    /\ vdLastDetail = << >>
    /\ vdLastData = << >>
    /\ NotViewportDataIdle

\* handleTableUpdate(event), copyViewportData included
HandleTableUpdate(shape) ==
    LET detail == EventDetail(shape)
    IN /\ IF IsNullish(detail)
          THEN UNCHANGED <<vdViewportData, vdFormattedStringData, vdLastData>>
          ELSE /\ vdViewportData' = extractViewportData(ViewColumns, detail)
               /\ vdFormattedStringData' = << >>
               /\ vdLastData' = <<detail>>
       /\ vdLastDetail' = <<detail>>
       /\ UNCHANGED <<vdTableSize, vdTotals, vdPendingNewRowCount, notViewportDataVars>>

\* The table grows or shrinks
TableSizeChanged(size) ==
    /\ size # vdTableSize
    /\ vdTableSize' = size
    /\ UNCHANGED <<vdTotals, vdPendingNewRowCount, vdViewportData, vdFormattedStringData,
                   vdLastDetail, vdLastData, notViewportDataVars>>

\* set totalsConfig(totalsConfig)
SetTotalsConfig(totalsConfig) ==
    /\ totalsConfig # vdTotals
    /\ vdTotals' = totalsConfig
    /\ vdFormattedStringData' = << >>
    /\ UNCHANGED <<vdTableSize, vdPendingNewRowCount, vdViewportData,
                   vdLastDetail, vdLastData, notViewportDataVars>>

\* set pendingRowCount(count), no pending row being edited
SetPendingRowCount(count) ==
    /\ count # vdPendingNewRowCount
    /\ vdPendingNewRowCount' = IF count > 0 THEN count ELSE 0
    /\ UNCHANGED <<vdTableSize, vdTotals, vdViewportData, vdFormattedStringData,
                   vdLastDetail, vdLastData, notViewportDataVars>>

\* textValueForCell(x, y) of a cell whose text is not cached yet
TextValueForCell(x, y) ==
    /\ vdFormattedStringData = << >>
    /\ NotNullish(valueForCell(ViewModel, x, y))
    /\ vdFormattedStringData' = <<"text">>
    /\ UNCHANGED <<vdTableSize, vdTotals, vdPendingNewRowCount, vdViewportData,
                   vdLastDetail, vdLastData, notViewportDataVars>>

GridRows == 0..(MaxTableSize + 2 + MaxPendingRowCount - 1)

NextViewportData ==
    \/ \E shape \in EventShapes : HandleTableUpdate(shape)
    \/ \E size \in 0..MaxTableSize : TableSizeChanged(size)
    \/ \E totalsConfig \in TotalsConfigs : SetTotalsConfig(totalsConfig)
    \/ \E count \in 0..MaxPendingRowCount : SetPendingRowCount(count)
    \/ \E x \in 0..(Len(ViewColumns) - 1), y \in GridRows : TextValueForCell(x, y)

SpecViewportData == InitViewportData /\ [][NextViewportData]_vars

\* The rows of the grid that show rows of the table
TableRows(m) == floatingTopRowCount(m)..(floatingTopRowCount(m) + m.tableSize - 1)

\* The table indices the data d covers
DeliveredIndices(d) == d.offset..(d.offset + Len(d.rows) - 1)

C3_CachedValues ==
    vdLastData # << >> =>
        LET d == vdLastData[1]
        IN \A y \in TableRows(ViewModel) :
              LET index == y - floatingTopRowCount(ViewModel)
              IN IF index \in DeliveredIndices(d)
                 THEN \A c \in 1..Len(d.columns) :
                         LET x == FindIndex(ColumnNames(ViewColumns), d.columns[c].name)
                             held == d.rows[index - d.offset + 1][d.columns[c].name].value
                         IN valueForCell(ViewModel, x, y) = held
                 ELSE \A x \in 0..(Len(ViewColumns) - 1) :
                         valueForCell(ViewModel, x, y) = JsNull

C3_NoDataKeepsCache ==
    (vdLastDetail' # << >> /\ IsNullish(vdLastDetail'[1])) => vdViewportData' = vdViewportData

\* C3: after the most recent table update event that delivered data d, for
\* every table row y whose table index (y minus the totals rows shown on top)
\* lies in [d.offset, d.offset + d.rows.length) and every column x delivered in
\* d, valueForCell(x, y) is the value d holds for that row and column; for a
\* table row outside that interval valueForCell returns null. An update event
\* with no data leaves the cached viewport unchanged.
C3_ViewportCache == []C3_CachedValues /\ [][C3_NoDataKeepsCache]_vars

\* Totals are shown on top, an update event without data followed the one that
\* delivered d, and the table has a row inside and a row outside of d
C3_Witness ==
    /\ vdLastData # << >>
    /\ IsNullish(vdLastDetail[1])
    /\ showOnTop(ViewModel)
    /\ \E y \in TableRows(ViewModel) :
          /\ y - floatingTopRowCount(ViewModel) \in DeliveredIndices(vdLastData[1])
          /\ \E x \in 0..(Len(ViewColumns) - 1) : NotNullish(valueForCell(ViewModel, x, y))
    /\ \E y \in TableRows(ViewModel) :
          y - floatingTopRowCount(ViewModel) \notin DeliveredIndices(vdLastData[1])

(***************************************************************************)
(* lodash.throttle(func, wait, options): debounce with maxWait = wait.     *)
(* A throttle is its timer, the arguments of the call it holds back and    *)
(* whether it has been called since it was created or cancelled.           *)
(***************************************************************************)
SET_VIEWPORT_THROTTLE == 150
APPLY_VIEWPORT_THROTTLE == 0
ROW_BUFFER_PAGES == 1

NewThrottle == [timer |-> FALSE, lastArgs |-> << >>, called |-> FALSE]

\* debounced(...args), called when `since` has passed since the last call and
\* the last invocation: the throttle afterwards and <<args>> when func is invoked
ThrottleCall(throttle, args, leading, wait, since) ==
    LET isInvoking == ~throttle.called \/ since >= wait
        invoked == [throttle |-> [timer |-> TRUE, lastArgs |-> << >>, called |-> TRUE],
                    invoke |-> <<args>>]
        held == [throttle |-> [timer |-> TRUE, lastArgs |-> <<args>>, called |-> TRUE],
                 invoke |-> << >>]
    IN IF isInvoking
       THEN (IF ~throttle.timer
             THEN (IF leading THEN invoked ELSE held)
             ELSE invoked)
       ELSE held

\* timerExpired() once wait has elapsed: the trailing edge
ThrottleTimerExpired(throttle) ==
    [throttle |-> [throttle EXCEPT !.timer = FALSE, !.lastArgs = << >>],
     invoke |-> throttle.lastArgs]

\* debounced.cancel()
ThrottleCancel(throttle) == NewThrottle

(***************************************************************************)
(* IrisGridTableModel: viewport and subscription. The operators take and   *)
(* return the fields of the model they change as a record s.               *)
(***************************************************************************)
MaxRow == 1

Viewport(top, bottom, columns) ==
    [t |-> "object", top |-> top, bottom |-> bottom, columns |-> columns]

getCachedViewportRowRange(top, bottom) ==
    LET viewHeight == bottom - top
        viewportTop == IF top - viewHeight * ROW_BUFFER_PAGES > 0
                       THEN top - viewHeight * ROW_BUFFER_PAGES ELSE 0
        viewportBottom == bottom + viewHeight * ROW_BUFFER_PAGES
    IN <<viewportTop, viewportBottom>>

\* table.setViewport hands out a subscription however many are open
applyBufferedViewportNew(s, viewportTop, viewportBottom, columns) ==
    [s EXCEPT !.subscription = <<Viewport(viewportTop, viewportBottom, columns)>>,
              !.lastRequest = <<Viewport(viewportTop, viewportBottom, columns)>>,
              !.openSubscriptions = @ + 1]

\* table.setViewport when there is no subscription, subscription.setViewport
\* otherwise
applyBufferedViewport(s, viewportTop, viewportBottom, columns) ==
    IF s.subscription = << >>
    THEN [s EXCEPT !.subscription = <<Viewport(viewportTop, viewportBottom, columns)>>,
                   !.lastRequest = <<Viewport(viewportTop, viewportBottom, columns)>>,
                   !.openSubscriptions = @ + 1]
    ELSE [s EXCEPT !.subscription = <<Viewport(viewportTop, viewportBottom, columns)>>,
                   !.lastRequest = <<Viewport(viewportTop, viewportBottom, columns)>>]

\* The function applyViewport throttles
applyViewportNow(s) ==
    IF IsNullish(s.viewport) THEN s
    ELSE LET range == getCachedViewportRowRange(s.viewport.top, s.viewport.bottom)
         IN applyBufferedViewport(s, range[1], range[2], s.viewport.columns)

\* this.applyViewport(): wait is 0, so that the wait has always elapsed
applyViewport(s) ==
    LET call == ThrottleCall(s.applyThrottle, << >>, FALSE, APPLY_VIEWPORT_THROTTLE, 0)
        called == [s EXCEPT !.applyThrottle = call.throttle]
    IN IF call.invoke # << >> THEN applyViewportNow(called) ELSE called

\* The function setViewport throttles
setViewportNow(s, args) ==
    IF args.bottom < args.top THEN s
    ELSE IF NotNullish(s.viewport) /\ s.viewport.top = args.top
            /\ s.viewport.bottom = args.bottom /\ s.viewport.columns = args.columns
    THEN s
    ELSE applyViewport([s EXCEPT !.viewport = args])

\* this.setViewport(top, bottom, columns)
setViewport(s, args, since) ==
    LET call == ThrottleCall(s.setThrottle, args, TRUE, SET_VIEWPORT_THROTTLE, since)
        called == [s EXCEPT !.setThrottle = call.throttle]
    IN IF call.invoke # << >> THEN setViewportNow(called, call.invoke[1]) ELSE called

\* closeSubscription() that leaves the throttled calls pending
closeSubscriptionOnly(s) ==
    IF s.subscription # << >>
    THEN [s EXCEPT !.subscription = << >>,
                   !.openSubscriptions = @ - 1,
                   !.closedSubscription = TRUE]
    ELSE s

closeSubscription(s) ==
    LET closed == IF s.subscription # << >>
                  THEN [s EXCEPT !.subscription = << >>,
                                 !.openSubscriptions = @ - 1,
                                 !.closedSubscription = TRUE]
                  ELSE s
    IN [closed EXCEPT !.setThrottle = ThrottleCancel(s.setThrottle),
                      !.applyThrottle = ThrottleCancel(s.applyThrottle)]

\* table.applyFilter, table.applySort or table.applyCustomColumns
tableApply(s) ==
    [s EXCEPT !.changedWhileSubscribed = @ \/ s.openSubscriptions > 0]

\* The arrays of columns a viewport is asked with
ViewportColumns == {"columns1", "columns2"}

\* The viewports the grid asks for; the last one is invalid
ViewportCalls ==
    {Viewport(0, MaxRow, "columns1"), Viewport(MaxRow, MaxRow, "columns1"),
     Viewport(MaxRow, MaxRow, "columns2"), Viewport(MaxRow, 0, "columns1")}

\* Arrays of custom columns: the one the model starts with, another empty one,
\* and one with a column
ColumnList(id, length) == [id |-> id, length |-> length]
InitialColumnList == ColumnList(0, 0)
ColumnListsToSet == {ColumnList(1, 0), ColumnList(2, 1)}

\* The filters and the sorts the grid applies
TableFilters == {<< >>, <<"A = 1">>}
TableSorts == {<< >>, <<"A asc">>}

ViewportState ==
    [viewport |-> vpViewport, subscription |-> vpSubscription,
     setThrottle |-> vpSetThrottle, applyThrottle |-> vpApplyThrottle,
     lastRequest |-> vpLastRequest,
     openSubscriptions |-> vpOpenSubscriptions,
     closedSubscription |-> vpClosedSubscription,
     changedWhileSubscribed |-> vpChangedWhileSubscribed]

\* The fields of the model become those of s
Becomes(s) ==
    /\ vpViewport' = s.viewport
    /\ vpSubscription' = s.subscription
    /\ vpSetThrottle' = s.setThrottle
    /\ vpApplyThrottle' = s.applyThrottle
    /\ vpLastRequest' = s.lastRequest
    /\ vpOpenSubscriptions' = s.openSubscriptions
    /\ vpClosedSubscription' = s.closedSubscription
    /\ vpChangedWhileSubscribed' = s.changedWhileSubscribed

InitViewport ==
    /\ vpListening = FALSE
    /\ vpTableClosed = FALSE
    /\ vpTableFilter = << >>
    /\ vpTableSort = << >>
    /\ vpViewport = JsNull
    /\ vpSubscription = << >>
    /\ vpSetThrottle = NewThrottle
    /\ vpApplyThrottle = NewThrottle
    /\ vpCustomColumnList = InitialColumnList
    /\ vpFormatColumnList = InitialColumnList
    /\ vpLastRequest = << >>
    /\ vpLastCall = << >>
    /\ vpStopped = FALSE
    /\ vpOpenSubscriptions = 0
    /\ vpClosedSubscription = FALSE
    /\ vpChangedWhileSubscribed = FALSE
    /\ vpStopRecord = << >>
    /\ vpTotals = JsNull
    /\ vpTotalsTable = JsNull
    /\ vpTotalsTablePromise = JsNull
    /\ vpTotalsRequests = << >>
    /\ NotViewportIdle

\* The totals configurations the grid sets: null and two objects
TotalsConfigsToSet ==
    {JsNull} \cup {config \in TotalsConfigs : NotNullish(config) /\ config.operationOrder = <<"Sum">>}

\* A call of table.getTotalsTable(totalsConfig): pending, or settled with a
\* table that is open or closed, or failed; canceled is hasCanceled of the
\* cancelable promise made of it, requestFailed whether REQUEST_FAILED was
\* dispatched for it
TotalsRequest(totalsConfig, status, canceled) ==
    [totalsConfig |-> totalsConfig, status |-> status, canceled |-> canceled,
     requestFailed |-> FALSE]

\* The totals table or the promise of the i-th call of table.getTotalsTable
OfRequest(i) == [t |-> "object", request |-> i]

MaxTotalsRequests == 2

TotalsState ==
    [totals |-> vpTotals, totalsTable |-> vpTotalsTable,
     totalsTablePromise |-> vpTotalsTablePromise, requests |-> vpTotalsRequests]

\* The totals fields of the model become those of s
TotalsBecome(s) ==
    /\ vpTotals' = s.totals
    /\ vpTotalsTable' = s.totalsTable
    /\ vpTotalsTablePromise' = s.totalsTablePromise
    /\ vpTotalsRequests' = s.requests

\* totalsTable.close()
closeTotalsTable(s) ==
    IF s.totalsTable # JsNull
    THEN [s EXCEPT !.requests[s.totalsTable.request].status = "closed"]
    ELSE s

\* totalsTablePromise.cancel()
cancelTotalsTablePromise(s) ==
    IF NotNullish(s.totalsTablePromise)
    THEN [s EXCEPT !.requests[s.totalsTablePromise.request].canceled = TRUE]
    ELSE s

setTotalsTable(s, totalsTable) ==
    [closeTotalsTable(s) EXCEPT !.totalsTable = totalsTable]

\* set totalsConfig(totalsConfig)
setTotalsConfig(s, totalsConfig) ==
    IF totalsConfig = s.totals THEN s
    ELSE LET cancelled == cancelTotalsTablePromise([s EXCEPT !.totals = totalsConfig])
             tableSet == setTotalsTable(cancelled, JsNull)
         IN IF IsNullish(totalsConfig) THEN tableSet
            ELSE [tableSet EXCEPT
                     !.requests = Append(@, TotalsRequest(totalsConfig, "pending", FALSE)),
                     !.totalsTablePromise = OfRequest(Len(tableSet.requests) + 1)]

\* The i-th call of table.getTotalsTable resolves and its table is handed to
\* setTotalsTable whether the promise was cancelled or not
totalsTableResolvedUncancelled(s, i) ==
    setTotalsTable([s EXCEPT !.requests[i].status = "open",
                             !.totalsTablePromise = JsNull],
                   OfRequest(i))

\* The i-th call of table.getTotalsTable resolves: a cancelled promise closes
\* the table it gets, another one hands it to setTotalsTable
totalsTableResolved(s, i) ==
    IF s.requests[i].canceled
    THEN [s EXCEPT !.requests[i].status = "closed"]
    ELSE setTotalsTable([s EXCEPT !.requests[i].status = "open",
                                  !.totalsTablePromise = JsNull],
                        OfRequest(i))

\* The i-th call of table.getTotalsTable fails: the catch callback returns for
\* a cancelled promise and dispatches REQUEST_FAILED for another one
totalsTableFailed(s, i) ==
    IF s.requests[i].canceled
    THEN [s EXCEPT !.requests[i].status = "failed"]
    ELSE [s EXCEPT !.requests[i].status = "failed",
                   !.requests[i].requestFailed = TRUE,
                   !.totalsTablePromise = JsNull]

\* The totals part of close()
closeTotals(s) == cancelTotalsTablePromise(closeTotalsTable(s))

\* What stopListening() found: whether a subscription was open and whether a
\* throttled call was waiting for its timer
StopRecord(s) ==
    [subscribed |-> s.subscription # << >>,
     setViewportPending |-> s.setThrottle.timer,
     applyViewportPending |-> s.applyThrottle.timer]

totalsVars == <<vpTotals, vpTotalsTable, vpTotalsTablePromise, vpTotalsRequests>>

\* startListening(), called for the first listener of the model
StartListening ==
    /\ ~vpListening
    /\ vpListening' = TRUE
    /\ vpStopRecord' = << >>
    /\ Becomes(applyViewport(ViewportState))
    /\ UNCHANGED <<vpTableClosed, vpTableFilter, vpTableSort, vpCustomColumnList, vpFormatColumnList, vpLastCall,
                   vpStopped, totalsVars, notViewportVars>>

\* stopListening(), called when the last listener of the model is removed
StopListening ==
    /\ vpListening
    /\ vpListening' = FALSE
    /\ Becomes(closeSubscription(ViewportState))
    /\ vpStopped' = TRUE
    /\ vpStopRecord' = <<StopRecord(ViewportState)>>
    /\ UNCHANGED <<vpTableClosed, vpTableFilter, vpTableSort, vpCustomColumnList, vpFormatColumnList, vpLastCall,
                   totalsVars, notViewportVars>>

\* close()
Close ==
    /\ ~vpTableClosed
    /\ vpTableClosed' = TRUE
    /\ vpStopped' = TRUE
    /\ TotalsBecome(closeTotals(TotalsState))
    /\ UNCHANGED <<vpListening, vpTableFilter, vpTableSort, vpViewport, vpSubscription, vpSetThrottle, vpApplyThrottle,
                   vpCustomColumnList, vpFormatColumnList, vpLastRequest, vpLastCall,
                   vpOpenSubscriptions, vpClosedSubscription, vpChangedWhileSubscribed,
                   vpStopRecord, notViewportVars>>

\* setViewport(top, bottom, columns), `since` after the previous call
SetViewport(args, since) ==
    /\ ~vpTableClosed
    /\ since > 0 => vpSetThrottle.called
    /\ vpStopRecord' = << >>
    /\ Becomes(setViewport(ViewportState, args, since))
    /\ IF args.bottom >= args.top
       THEN vpLastCall' = <<args>> /\ vpStopped' = FALSE
       ELSE UNCHANGED <<vpLastCall, vpStopped>>
    /\ UNCHANGED <<vpListening, vpTableClosed, vpTableFilter, vpTableSort,
                   vpCustomColumnList, vpFormatColumnList,
                   totalsVars, notViewportVars>>

\* The timer of the throttled setViewport expires
SetViewportTimer ==
    /\ vpSetThrottle.timer
    /\ LET expired == ThrottleTimerExpired(vpSetThrottle)
           s == [ViewportState EXCEPT !.setThrottle = expired.throttle]
       IN Becomes(IF expired.invoke # << >> THEN setViewportNow(s, expired.invoke[1]) ELSE s)
    /\ UNCHANGED vpStopRecord
    /\ UNCHANGED <<vpListening, vpTableClosed, vpTableFilter, vpTableSort,
                   vpCustomColumnList, vpFormatColumnList,
                   vpLastCall, vpStopped, totalsVars, notViewportVars>>

\* The timer of the throttled applyViewport expires
ApplyViewportTimer ==
    /\ vpApplyThrottle.timer
    /\ LET expired == ThrottleTimerExpired(vpApplyThrottle)
           s == [ViewportState EXCEPT !.applyThrottle = expired.throttle]
       IN Becomes(IF expired.invoke # << >> THEN applyViewportNow(s) ELSE s)
    /\ UNCHANGED vpStopRecord
    /\ UNCHANGED <<vpListening, vpTableClosed, vpTableFilter, vpTableSort,
                   vpCustomColumnList, vpFormatColumnList,
                   vpLastCall, vpStopped, totalsVars, notViewportVars>>

\* set filter(filter)
SetFilter(filter) ==
    /\ ~vpTableClosed
    /\ vpTableFilter' = filter
    /\ vpStopRecord' = << >>
    /\ Becomes(applyViewport(tableApply(closeSubscription(ViewportState))))
    /\ UNCHANGED <<vpListening, vpTableClosed, vpTableSort,
                   vpCustomColumnList, vpFormatColumnList,
                   vpLastCall, vpStopped, totalsVars, notViewportVars>>

\* set sort(sort)
SetSort(sort) ==
    /\ ~vpTableClosed
    /\ vpTableSort' = sort
    /\ vpStopRecord' = << >>
    /\ Becomes(applyViewport(tableApply(closeSubscription(ViewportState))))
    /\ UNCHANGED <<vpListening, vpTableClosed, vpTableFilter,
                   vpCustomColumnList, vpFormatColumnList,
                   vpLastCall, vpStopped, totalsVars, notViewportVars>>

\* set customColumns(customColumns)
SetCustomColumns(customColumns) ==
    /\ ~vpTableClosed
    /\ vpStopRecord' = << >>
    /\ IF vpCustomColumnList.length = 0 /\ customColumns.length = 0
       THEN /\ vpCustomColumnList' = customColumns
            /\ Becomes(ViewportState)
       ELSE IF vpCustomColumnList.id = customColumns.id
       THEN UNCHANGED vpCustomColumnList /\ Becomes(ViewportState)
       ELSE /\ vpCustomColumnList' = customColumns
            /\ Becomes(applyViewport(tableApply(closeSubscription(ViewportState))))
    /\ UNCHANGED <<vpListening, vpTableClosed, vpTableFilter, vpTableSort, vpFormatColumnList,
                   vpLastCall, vpStopped, totalsVars, notViewportVars>>

\* set formatColumns(formatColumns)
SetFormatColumns(formatColumns) ==
    /\ ~vpTableClosed
    /\ vpStopRecord' = << >>
    /\ IF vpFormatColumnList.length = 0 /\ formatColumns.length = 0
       THEN /\ vpFormatColumnList' = formatColumns
            /\ Becomes(ViewportState)
       ELSE IF vpFormatColumnList.id = formatColumns.id
       THEN UNCHANGED vpFormatColumnList /\ Becomes(ViewportState)
       ELSE /\ vpFormatColumnList' = formatColumns
            /\ Becomes(applyViewport(tableApply(closeSubscription(ViewportState))))
    /\ UNCHANGED <<vpListening, vpTableClosed, vpTableFilter, vpTableSort, vpCustomColumnList,
                   vpLastCall, vpStopped, totalsVars, notViewportVars>>

NextViewport ==
    \/ StartListening
    \/ StopListening
    \/ Close
    \/ \E args \in ViewportCalls, since \in {0, SET_VIEWPORT_THROTTLE} : SetViewport(args, since)
    \/ SetViewportTimer
    \/ ApplyViewportTimer
    \/ \E filter \in TableFilters : SetFilter(filter)
    \/ \E sort \in TableSorts : SetSort(sort)
    \/ \E customColumns \in ColumnListsToSet : SetCustomColumns(customColumns)
    \/ \E formatColumns \in ColumnListsToSet : SetFormatColumns(formatColumns)

SpecViewport == InitViewport /\ [][NextViewport]_vars

\* The fields of the viewport group that the totals table does not touch
subscriptionVars == <<vpListening, vpTableClosed, vpTableFilter, vpTableSort, vpViewport, vpSubscription, vpSetThrottle, vpApplyThrottle, vpCustomColumnList, vpFormatColumnList, vpLastRequest, vpLastCall, vpStopped, vpOpenSubscriptions, vpClosedSubscription, vpChangedWhileSubscribed, vpStopRecord>>

\* set totalsConfig(totalsConfig)
SetTotalsConfigRequest(totalsConfig) ==
    /\ ~vpTableClosed
    /\ Len(vpTotalsRequests) < MaxTotalsRequests
    /\ TotalsBecome(setTotalsConfig(TotalsState, totalsConfig))
    /\ UNCHANGED <<subscriptionVars, notViewportVars>>

\* The promise of the i-th call of table.getTotalsTable resolves
TotalsTableResolves(i) ==
    /\ i <= Len(vpTotalsRequests)
    /\ vpTotalsRequests[i].status = "pending"
    /\ TotalsBecome(totalsTableResolved(TotalsState, i))
    /\ UNCHANGED <<subscriptionVars, notViewportVars>>

\* The promise of the i-th call of table.getTotalsTable is rejected
TotalsTableFails(i) ==
    /\ i <= Len(vpTotalsRequests)
    /\ vpTotalsRequests[i].status = "pending"
    /\ TotalsBecome(totalsTableFailed(TotalsState, i))
    /\ UNCHANGED <<subscriptionVars, notViewportVars>>

\* The viewport the grid asks for while the totals are configured
TotalsViewportCalls == {Viewport(0, MaxRow, "columns1")}

NextTotals ==
    \/ StartListening
    \/ StopListening
    \/ Close
    \/ \E args \in TotalsViewportCalls, since \in {0, SET_VIEWPORT_THROTTLE} : SetViewport(args, since)
    \/ SetViewportTimer
    \/ ApplyViewportTimer
    \/ \E totalsConfig \in TotalsConfigsToSet : SetTotalsConfigRequest(totalsConfig)
    \/ \E i \in 1..MaxTotalsRequests : TotalsTableResolves(i)
    \/ \E i \in 1..MaxTotalsRequests : TotalsTableFails(i)

SpecTotals == InitViewport /\ [][NextTotals]_vars

\* The viewport the table is to be asked for after setViewport(top, bottom, columns)
BufferedViewport(args) ==
    Viewport(IF args.top - (args.bottom - args.top) > 0
             THEN args.top - (args.bottom - args.top) ELSE 0,
             args.bottom + (args.bottom - args.top), args.columns)

\* No timer is pending: without another call the model sends no request
ViewportQuiet == ~vpSetThrottle.timer /\ ~vpApplyThrottle.timer

\* C4: throttled viewport updates are not lost: once setViewport(top, bottom,
\* columns) was called with bottom >= top and the model was not stopped or
\* closed afterwards, then, whatever calls of setViewport and assignments of
\* filter, sort, customColumns and formatColumns came in between, when no timer
\* is left pending the last request the table or its subscription received is
\* the one for the buffered row range and the columns of the last call.
C4_ViewportUpdatesNotLost ==
    (vpLastCall # << >> /\ ~vpStopped /\ ViewportQuiet) =>
        vpLastRequest = <<BufferedViewport(vpLastCall[1])>>

(***************************************************************************)
(* IrisGridTableModel: the pending rows of an input table. The operators   *)
(* take and return the fields of the model they change as a record s.      *)
(* A model index is a number v + frac/2, so that 1.5 is Half(1).           *)
(***************************************************************************)
Idx(n) == [t |-> "number", v |-> n, frac |-> 0]
Half(n) == [t |-> "number", v |-> n, frac |-> 1]

\* Number.isInteger(value) && typeof value === 'number' && value >= 0
isValidIndex(value) == value.t = "number" /\ value.frac = 0 /\ value.v >= 0

Max(S) == CHOOSE n \in S : \A k \in S : k <= n

\* map.delete(key)
MapDelete(map, key) == SelectSeq(map, LAMBDA e : e[1] # key)

maxPendingDataRow(s) ==
    IF Len(s.pendingNewDataMap) > 0
    THEN Max({s.pendingNewDataMap[i][1].v : i \in 1..Len(s.pendingNewDataMap)}) + 1
    ELSE 0

\* A call of a setter: the model afterwards, whether it threw, the events it
\* dispatched
Outcome(s, threw, events) == [state |-> s, threw |-> threw, events |-> events]

\* set pendingDataMap(map) that checks the row indices only
setPendingDataMapRowsOnly(s, map, same) ==
    IF same THEN Outcome(s, FALSE, << >>)
    ELSE IF \E i \in 1..Len(map) : ~isValidIndex(map[i][1])
    THEN Outcome(s, TRUE, << >>)
    ELSE LET assigned == [s EXCEPT !.pendingNewDataMap = map]
         IN Outcome([assigned EXCEPT
                        !.pendingNewRowCount =
                            Max({s.pendingNewRowCount, maxPendingDataRow(assigned)}),
                        !.formattedStringData = EmptyMap],
                    FALSE, <<"PENDING_DATA_UPDATED">>)

\* set pendingDataMap(map); same: map is the very map the model holds
setPendingDataMap(s, map, same) ==
    IF same THEN Outcome(s, FALSE, << >>)
    ELSE IF \E i \in 1..Len(map) :
               \/ ~isValidIndex(map[i][1])
               \/ \E j \in 1..Len(map[i][2].data) : ~isValidIndex(map[i][2].data[j][1])
    THEN Outcome(s, TRUE, << >>)
    ELSE LET assigned == [s EXCEPT !.pendingNewDataMap = map]
         IN Outcome([assigned EXCEPT
                        !.pendingNewRowCount =
                            Max({s.pendingNewRowCount, maxPendingDataRow(assigned)}),
                        !.formattedStringData = EmptyMap],
                    FALSE, <<"PENDING_DATA_UPDATED">>)

\* set pendingRowCount(count)
\* The pendingRowCount setter without the rows of the pending data
setPendingRowCountIgnoringData(s, count) ==
    IF count = s.pendingNewRowCount THEN Outcome(s, FALSE, << >>)
    ELSE Outcome([s EXCEPT !.pendingNewRowCount = Max({0, count})], FALSE, <<"UPDATED">>)

setPendingRowCount(s, count) ==
    IF count = s.pendingNewRowCount THEN Outcome(s, FALSE, << >>)
    ELSE Outcome([s EXCEPT !.pendingNewRowCount = Max({0, count, maxPendingDataRow(s)})],
                 FALSE, <<"UPDATED">>)

\* The table of the model: one row, one column
EditTable == [size |-> 1, columns |-> <<Column("A", StringType)>>]

\* The fields of the model that the rows of the grid are told apart by
EditRowModel(s) ==
    [tableSize |-> EditTable.size, totals |-> JsNull, totalsDataMap |-> JsNull,
     pendingNewRowCount |-> s.pendingNewRowCount, pendingNewDataMap |-> s.pendingNewDataMap,
     viewportData |-> JsNull]

\* The index of a range that is not bounded on that side (null)
NullIndex == 0 - 1

\* new GridRange(startColumn, startRow, endColumn, endRow): the constructor
\* of the grid library puts the smaller index first when both are given
GridRange(startColumn, startRow, endColumn, endRow) ==
    LET swapColumns == startColumn # NullIndex /\ endColumn # NullIndex
                       /\ startColumn > endColumn
        swapRows == startRow # NullIndex /\ endRow # NullIndex /\ startRow > endRow
    IN [startColumn |-> IF swapColumns THEN endColumn ELSE startColumn,
        startRow |-> IF swapRows THEN endRow ELSE startRow,
        endColumn |-> IF swapColumns THEN startColumn ELSE endColumn,
        endRow |-> IF swapRows THEN startRow ELSE endRow]

\* GridRange.isBounded(range)
isBounded(range) ==
    /\ range.startColumn # NullIndex
    /\ range.startRow # NullIndex
    /\ range.endColumn # NullIndex
    /\ range.endRow # NullIndex

\* GridRange.forEachCell
Cells(range) ==
    {<<x, y>> : x \in range.startColumn..range.endColumn,
                y \in range.startRow..range.endRow}

\* isEditableRange without its test of the key columns
isEditableRangeAnyColumn(s, inputTable, range) ==
    LET m == EditRowModel(s)
        rowCount == floatingTopRowCount(m) + m.tableSize + s.pendingNewRowCount
    IN /\ NotNullish(inputTable)
       /\ isBounded(range)
       /\ range.startRow >= floatingTopRowCount(m)
       /\ range.startRow < rowCount
       /\ range.endRow < rowCount

isEditableRange(s, inputTable, range) ==
    LET m == EditRowModel(s)
        rowCount == floatingTopRowCount(m) + m.tableSize + s.pendingNewRowCount
    IN /\ NotNullish(inputTable)
       /\ isBounded(range)
       /\ \/ NotNullish(pendingRow(m, range.startRow)) /\ NotNullish(pendingRow(m, range.endRow))
          \/ range.startColumn >= inputTable.keyColumns /\ range.endColumn >= inputTable.keyColumns
       /\ range.startRow >= floatingTopRowCount(m)
       /\ range.startRow < rowCount
       /\ range.endRow < rowCount

isDeletableRange(s, inputTable, range) ==
    LET m == EditRowModel(s)
        rowCount == floatingTopRowCount(m) + m.tableSize + s.pendingNewRowCount
    IN /\ NotNullish(inputTable)
       /\ range.startRow # NullIndex
       /\ range.endRow # NullIndex
       /\ range.startRow >= floatingTopRowCount(m)
       /\ range.startRow < rowCount
       /\ range.endRow < rowCount

\* TableUtils.makeValue(column.type, text, timeZone): null for no text
makeValue(text) == IF text = "" THEN JsNull ELSE Str(text)

\* displayString(value, column.type, column.name), null for no value
formattedTextOf(text) ==
    IF NotNullish(makeValue(text)) THEN Str(text) ELSE JsNull

\* f[cell] = value for every cell
CacheAll(f, cells, value) ==
    [c \in DOMAIN f \cup cells |-> IF c \in cells THEN value ELSE f[c]]

\* delete f[cell] for every cell
ClearAll(f, cells) == [c \in DOMAIN f \ cells |-> f[c]]

\* The body of the loop of setValueForRanges over the cells of the pending rows
EditPendingCell(map, x, y, text) ==
    LET withRow == IF Idx(y) \in MapKeys(map) THEN map
                   ELSE MapSet(map, Idx(y), [data |-> << >>])
        rowData == MapGet(withRow, Idx(y)).data
        newRowData == IF NotNullish(makeValue(text))
                      THEN MapSet(rowData, Idx(x), CellData(makeValue(text)))
                      ELSE MapDelete(rowData, Idx(x))
    IN IF Len(newRowData) > 0
       THEN MapSet(withRow, Idx(y), [data |-> newRowData])
       ELSE MapDelete(withRow, Idx(y))

\* The loop, cell after cell from the first row on
RECURSIVE EditPendingCells(_, _, _)
EditPendingCells(map, cells, text) ==
    IF cells = {} THEN map
    ELSE LET first == CHOOSE c \in cells :
                          \A d \in cells : c[2] < d[2] \/ (c[2] = d[2] /\ c[1] <= d[1])
         IN EditPendingCells(EditPendingCell(map, first[1], first[2], text),
                             cells \ {first}, text)

\* The cells of a range in the rows of the table, and in the pending rows with
\* their row counted from the first pending row
TableCells(s, range) ==
    {c \in Cells(range) : c[2] >= floatingTopRowCount(EditRowModel(s))
                          /\ c[2] < floatingTopRowCount(EditRowModel(s)) + EditTable.size}
PendingCells(s, range) ==
    {<<c[1], pendingRow(EditRowModel(s), c[2]).v>> :
        c \in {d \in Cells(range) : NotNullish(pendingRow(EditRowModel(s), d[2]))}}

\* setValueForRanges up to its first await
startSetValueForRanges(s, range, text) ==
    LET cached == [s EXCEPT !.pendingStringData =
                       CacheAll(s.pendingStringData, Cells(range), formattedTextOf(text))]
        newDataMap == EditPendingCells(cached.pendingNewDataMap, PendingCells(cached, range),
                                       text)
    IN IF PendingCells(cached, range) # {}
       THEN LET set == setPendingDataMap(cached, newDataMap, FALSE)
            IN IF set.threw THEN set
               ELSE Outcome(set.state, FALSE, set.events \o <<"UPDATED">>)
       ELSE Outcome(cached, FALSE, <<"UPDATED">>)

\* setValueForRanges from the end of its try block on: the texts are cached
\* unless something was thrown before, then the pending texts are cleared
finishSetValueForRanges(s, range, text, thrown) ==
    LET cellText == formattedTextOf(text)
        cached == IF thrown \/ IsNullish(cellText) THEN s
                  ELSE [s EXCEPT !.formattedStringData =
                            CacheAll(s.formattedStringData, Cells(range), cellText)]
    IN [cached EXCEPT !.pendingStringData = ClearAll(cached.pendingStringData, Cells(range))]

InputTables ==
    {JsNull, [t |-> "object", keyColumns |-> 0], [t |-> "object", keyColumns |-> 1]}

\* The pending rows the grid works with are rows 0..MaxPendingIndex
MaxPendingIndex == 0

\* The rows of the table, the pending rows and one row below them
EditRows == 0..(EditTable.size + MaxPendingIndex + 1)

EditRanges ==
    {GridRange(0, startRow, 0, endRow) : startRow \in EditRows, endRow \in EditRows}
    \cup {GridRange(NullIndex, 0, NullIndex, 0),
          GridRange(NullIndex, NullIndex, NullIndex, NullIndex)}

EditTexts == {"", "v"}

\* The maps the grid assigns to pendingDataMap
PendingRowData == {<<<<Idx(0), CellData(Str("w"))>>>>}
ValidPendingMaps ==
    { [i \in 1..Len(rows) |-> <<Idx(rows[i]), [data |-> data[i]]>>] :
        rows \in DistinctSeqs(0..MaxPendingIndex, MaxPendingIndex + 1),
        data \in [1..(MaxPendingIndex + 1) -> PendingRowData] }
InvalidIndexes == {Idx(-1), Half(1), Str("0")}
InvalidPendingMaps ==
    { <<<<rowIndex, [data |-> <<<<Idx(0), CellData(Str("v"))>>>>]>>>> : rowIndex \in InvalidIndexes }
    \cup { <<<<Idx(0), [data |-> <<<<column, CellData(Str("v"))>>>>]>>>> :
              column \in InvalidIndexes }
    \cup { <<<<Idx(0), [data |-> <<<<Idx(0), CellData(Str("v"))>>>>]>>,
             <<rowIndex, [data |-> << >>]>>>> : rowIndex \in InvalidIndexes }

PendingState ==
    [pendingNewDataMap |-> pnPendingNewDataMap, pendingNewRowCount |-> pnPendingNewRowCount,
     formattedStringData |-> pnFormattedStringData, pendingStringData |-> pnPendingStringData]

PendingBecomes(s) ==
    /\ pnPendingNewDataMap' = s.pendingNewDataMap
    /\ pnPendingNewRowCount' = s.pendingNewRowCount
    /\ pnFormattedStringData' = s.formattedStringData
    /\ pnPendingStringData' = s.pendingStringData

LastOp(op, invalid, threw, events) ==
    [op |-> op, invalid |-> invalid, threw |-> threw, events |-> events]

\* A map with a row index or a column index that is not a non-negative integer
HasInvalidIndex(map) ==
    \E i \in 1..Len(map) :
        \/ map[i][1] \in InvalidIndexes
        \/ \E j \in 1..Len(map[i][2].data) : map[i][2].data[j][1] \in InvalidIndexes

commitVars == <<pnViewport, pnIsSaveInProgress>>

\* The cell values of a pending data map: row, column and cell
Entries(map) ==
    UNION {{<<map[i][1], map[i][2].data[j][1], map[i][2].data[j][2]>> :
                j \in 1..Len(map[i][2].data)} : i \in 1..Len(map)}

\* What the calls in flight have not sent, when the map becomes newMap: the
\* cell values entered before that are still there, and those entered now
EnteredSince(commits, map, newMap) ==
    [i \in 1..Len(commits) |->
        (commits[i] \cap Entries(newMap)) \cup (Entries(newMap) \ Entries(map))]

TrackEntered ==
    pnCommits' = EnteredSince(pnCommits, pnPendingNewDataMap, pnPendingNewDataMap')

InitPending ==
    /\ pnInputTable \in InputTables
    /\ pnViewport = Undefined
    /\ pnIsSaveInProgress = FALSE
    /\ pnCommits = << >>
    /\ pnPendingNewDataMap = << >>
    /\ pnPendingNewRowCount = 0
    /\ pnFormattedStringData = EmptyMap
    /\ pnPendingStringData = EmptyMap
    /\ pnEdit = << >>
    /\ pnLastOp = << >>
    /\ NotPendingIdle

\* model.pendingDataMap = map
SetPendingDataMap(map, same) ==
    /\ same => map = pnPendingNewDataMap
    /\ LET set == setPendingDataMap(PendingState, map, same)
       IN /\ PendingBecomes(set.state)
          /\ pnLastOp' = <<LastOp("set pendingDataMap", HasInvalidIndex(map),
                                  set.threw, set.events)>>
    /\ UNCHANGED <<pnInputTable, pnEdit, commitVars, notPendingVars>>
    /\ TrackEntered

\* model.pendingRowCount = count
SetPendingRowCountTo(count) ==
    /\ LET set == setPendingRowCount(PendingState, count)
       IN /\ PendingBecomes(set.state)
          /\ pnLastOp' = <<LastOp("set pendingRowCount", FALSE, set.threw, set.events)>>
    /\ UNCHANGED <<pnInputTable, pnEdit, commitVars, notPendingVars>>
    /\ TrackEntered

Edit(range, text, pc, promise, failed) ==
    [range |-> range, text |-> text, pc |-> pc, promise |-> promise, failed |-> failed]

\* How the promise of an edit settled, and what had failed
Settled(promise, failed) == [promise |-> promise, failed |-> failed]

EditInFlight == pnEdit # << >>

\* What the last statements of the try block leave behind: assertNotNull
\* throws for a text without a value
FailedAtEnd(text) == IF IsNullish(formattedTextOf(text)) THEN "assertNotNull" ELSE "none"

\* A range that may not be edited: there is no input table, the range is not
\* bounded, one of its rows is outside the rows of the table and the pending
\* rows, or it has a key column in a row that is not pending
Uneditable(range) ==
    IF IsNullish(pnInputTable) \/ ~isBounded(range) THEN TRUE
    ELSE \/ \E y \in {range.startRow, range.endRow} :
               y < 0 \/ y >= EditTable.size + pnPendingNewRowCount
         \/ /\ \E y \in {range.startRow, range.endRow} : y < EditTable.size
            /\ \E x \in {range.startColumn, range.endColumn} : x < pnInputTable.keyColumns

\* model.setValueForRanges([range], text), up to its first await or, when no
\* row of the table is edited, to its end
SetValueForRanges(range, text) ==
    /\ ~EditInFlight
    /\ IF ~isEditableRange(PendingState, pnInputTable, range)
       THEN /\ pnEdit' = << >>
            /\ pnLastOp' = <<LastOp("setValueForRanges", Uneditable(range), TRUE, << >>),
                             Settled("rejected", "uneditable")>>
            /\ UNCHANGED <<pnPendingNewDataMap, pnPendingNewRowCount, pnFormattedStringData,
                           pnPendingStringData>>
       ELSE LET start == startSetValueForRanges(PendingState, range, text)
                call == LastOp("setValueForRanges", Uneditable(range), FALSE, start.events)
            IN IF ~start.threw /\ TableCells(start.state, range) # {}
               THEN /\ PendingBecomes(start.state)
                    /\ pnEdit' = <<Edit(range, text, "snapshot", "pending", "none")>>
                    /\ pnLastOp' = <<call>>
               ELSE /\ PendingBecomes(finishSetValueForRanges(start.state, range, text,
                                                              start.threw))
                    /\ pnEdit' = << >>
                    /\ pnLastOp' = <<call, Settled("resolved",
                                                   IF start.threw THEN "pendingDataMap"
                                                   ELSE FailedAtEnd(text))>>
    /\ UNCHANGED <<pnInputTable, commitVars, notPendingVars>>
    /\ TrackEntered

\* await this.snapshot(...) settles: with the rows, or with an error that the
\* catch block logs
SnapshotSettles(ok) ==
    /\ EditInFlight
    /\ pnEdit[1].pc = "snapshot"
    /\ IF ok
       THEN /\ pnEdit' = <<[pnEdit[1] EXCEPT !.pc = "addRows"]>>
            /\ pnLastOp' = <<LastOp("snapshot settles", FALSE, FALSE, << >>)>>
            /\ UNCHANGED <<pnPendingNewDataMap, pnPendingNewRowCount, pnFormattedStringData,
                           pnPendingStringData>>
       ELSE /\ PendingBecomes(finishSetValueForRanges(PendingState, pnEdit[1].range,
                                                      pnEdit[1].text, TRUE))
            /\ pnEdit' = << >>
            /\ pnLastOp' = <<LastOp("snapshot settles", FALSE, TRUE, << >>),
                             Settled("resolved", "snapshot")>>
    /\ UNCHANGED <<pnInputTable, commitVars, notPendingVars>>
    /\ TrackEntered

\* await this.inputTable?.addRows(newRows) settles, and setValueForRanges
\* runs to its end
AddRowsSettles(ok) ==
    /\ EditInFlight
    /\ pnEdit[1].pc = "addRows"
    /\ PendingBecomes(finishSetValueForRanges(PendingState, pnEdit[1].range, pnEdit[1].text,
                                              ~ok))
    /\ pnEdit' = << >>
    /\ pnLastOp' = <<LastOp("addRows settles", FALSE, ~ok, << >>),
                     Settled("resolved", IF ok THEN FailedAtEnd(pnEdit[1].text)
                                         ELSE "addRows")>>
    /\ UNCHANGED <<pnInputTable, commitVars, notPendingVars>>
    /\ TrackEntered

\* C7: assigning pendingDataMap a map with a row index or a column index that
\* is not a non-negative integer throws, and leaves pendingDataMap,
\* pendingRowCount and the formatted-text cache as they were, without a
\* PENDING_DATA_UPDATED event
C7_InvalidPendingDataMapRejected ==
    [][(pnLastOp' # << >> /\ pnLastOp'[1].op = "set pendingDataMap" /\ pnLastOp'[1].invalid)
        => /\ pnLastOp'[1].threw
           /\ pnPendingNewDataMap' = pnPendingNewDataMap
           /\ pnPendingNewRowCount' = pnPendingNewRowCount
           /\ pnFormattedStringData' = pnFormattedStringData
           /\ \A i \in 1..Len(pnLastOp'[1].events) :
                  pnLastOp'[1].events[i] # "PENDING_DATA_UPDATED"]_vars

C7_Witness ==
    /\ pnLastOp # << >>
    /\ pnLastOp[1].op = "set pendingDataMap"
    /\ pnLastOp[1].invalid
    /\ pnLastOp[1].threw
    /\ Len(pnPendingNewDataMap) > 0
    /\ pnPendingNewRowCount > 0
    /\ DOMAIN pnFormattedStringData # {}

\* C10: the promise of setValueForRanges rejects when the snapshot of the
\* edited rows or inputTable.addRows fails
C10_EditFailureRejects ==
    (Len(pnLastOp) = 2 /\ pnLastOp[1].op \in {"snapshot settles", "addRows settles"}
                       /\ pnLastOp[2].failed \in {"snapshot", "addRows"})
        => pnLastOp[2].promise = "rejected"

(***************************************************************************)
(* IntegerColumnFormatter                                                  *)
(***************************************************************************)
DEFAULT_FORMAT_STRING == Str("###,##0")

NaN == [t |-> "number", nan |-> TRUE]

\* JavaScript truthiness of the values a format object holds
Truthy(v) ==
    /\ NotNullish(v)
    /\ v # Str("")
    /\ v # Num(0)
    /\ v # NaN
    /\ v # Bool(FALSE)

\* valueParam * multiplier for a multiplier that is a number other than 0
Times(value, multiplier) ==
    IF value.t = "number" /\ value # NaN THEN Num(value.v * multiplier.v)
    ELSE IF value.t = "null" THEN Num(0)
    ELSE NaN

\* dh.i18n.NumberFormat.format(formatString, value) of the API: it throws for
\* the format strings and the values it rejects and returns a text otherwise
NumberFormatFormat(rejects, formatString, value) ==
    IF formatString \in rejects.formatStrings \/ value \in rejects.values
    THEN Thrown("NumberFormat")
    ELSE Returned([t |-> "string", formatString |-> formatString, value |-> value])

\* format.formatString and format.multiplier; reading a property of null or
\* undefined throws a TypeError
IntegerFormat(formatString, multiplier) ==
    Obj([k \in {"formatString", "multiplier"} |->
            IF k = "formatString" THEN formatString ELSE multiplier])

\* IntegerColumnFormatter.isValid(format)
isValidIntegerFormat(rejects, format) ==
    IF IsNullish(format) THEN Returned(FALSE)
    ELSE IF IsThrown(NumberFormatFormat(rejects, Get(format, "formatString"), Num(0)))
         THEN Returned(FALSE)
         ELSE Returned(TRUE)

\* The arguments IntegerColumnFormatter.format hands to the number formatter
FormatStringOf(format, defaultFormatString) ==
    IF Truthy(format) /\ Truthy(Get(format, "formatString"))
    THEN Get(format, "formatString") ELSE defaultFormatString
FormatValueOf(valueParam, format) ==
    IF Truthy(format) /\ Truthy(Get(format, "multiplier"))
    THEN Times(valueParam, Get(format, "multiplier")) ELSE valueParam

\* IntegerColumnFormatter.format(valueParam, format) without its try block
formatIntegerUncaught(rejects, defaultFormatString, valueParam, format) ==
    NumberFormatFormat(rejects, FormatStringOf(format, defaultFormatString),
                       FormatValueOf(valueParam, format))

\* IntegerColumnFormatter.format(valueParam, format)
formatInteger(rejects, defaultFormatString, valueParam, format) ==
    LET formatted == NumberFormatFormat(rejects, FormatStringOf(format, defaultFormatString),
                                        FormatValueOf(valueParam, format))
    IN IF IsThrown(formatted) THEN Returned(Str("")) ELSE formatted

MaxMultiplier == 2

IntegerFormatStrings == {Undefined, Str(""), DEFAULT_FORMAT_STRING, Str("0.0'")}
IntegerMultipliers == {Undefined} \cup {Num(n) : n \in 0..MaxMultiplier}
IntegerFormats ==
    {Undefined, JsNull}
    \cup {IntegerFormat(formatString, multiplier) :
            formatString \in IntegerFormatStrings, multiplier \in IntegerMultipliers}
IntegerValues == {Num(0), Num(7), JsNull, Undefined, Str("x"), NaN}

InitIntegerFormat ==
    /\ ifRejects \in [formatStrings : SUBSET IntegerFormatStrings,
                      values : SUBSET {JsNull, Undefined, Str("x"), NaN}]
    /\ ifCall = << >>
    /\ ifResult = << >>
    /\ NotIntegerFormatIdle

\* new IntegerColumnFormatter().format(valueParam, format)
FormatInteger(valueParam, format) ==
    /\ ifCall = << >>
    /\ ifCall' = <<[op |-> "format", value |-> valueParam, format |-> format]>>
    /\ ifResult' = <<formatInteger(ifRejects, DEFAULT_FORMAT_STRING, valueParam, format)>>
    /\ UNCHANGED <<ifRejects, notIntegerFormatVars>>

\* IntegerColumnFormatter.isValid(format)
IsValidIntegerFormat(format) ==
    /\ ifCall = << >>
    /\ ifCall' = <<[op |-> "isValid", value |-> Num(0), format |-> format]>>
    /\ ifResult' = <<isValidIntegerFormat(ifRejects, format)>>
    /\ UNCHANGED <<ifRejects, notIntegerFormatVars>>

NextIntegerFormat ==
    \/ \E valueParam \in IntegerValues, format \in IntegerFormats :
           FormatInteger(valueParam, format)
    \/ \E format \in IntegerFormats : IsValidIntegerFormat(format)

SpecIntegerFormat == InitIntegerFormat /\ [][NextIntegerFormat]_vars

\* Whether the number formatter rejects what the last call handed to it
FormatterRejectedLastCall ==
    LET call == ifCall[1]
    IN IF call.op = "format"
       THEN \/ FormatStringOf(call.format, DEFAULT_FORMAT_STRING) \in ifRejects.formatStrings
            \/ FormatValueOf(call.value, call.format) \in ifRejects.values
       ELSE \/ IsNullish(call.format)
            \/ Get(call.format, "formatString") \in ifRejects.formatStrings
            \/ Num(0) \in ifRejects.values

\* C11: IntegerColumnFormatter.format never throws and returns the empty
\* string when the number formatter rejects the format string or the value;
\* isValid(format) is false exactly when formatting 0 with
\* format.formatString fails
C11_IntegerFormatNeverThrows ==
    ifCall # << >> =>
        /\ ~IsThrown(ifResult[1])
        /\ ifCall[1].op = "format" /\ FormatterRejectedLastCall
               => ifResult[1].returned = Str("")
        /\ ifCall[1].op = "isValid"
               => (ifResult[1].returned = FALSE <=> FormatterRejectedLastCall)

C11_Witness ==
    /\ ifCall # << >>
    /\ ifCall[1].op = "format"
    /\ NotNullish(ifCall[1].format)
    /\ Truthy(Get(ifCall[1].format, "multiplier"))
    /\ FormatterRejectedLastCall
    /\ ifResult[1] = Returned(Str(""))

(***************************************************************************)
(* IrisGridTableModel: setValues, delete and commitPending                 *)
(***************************************************************************)
\* An edit operation names its cell by column and row or by x and y; the
\* other pair is undefined
EditOperation(style, x, y, text) ==
    IF style = "column/row"
    THEN [column |-> x, row |-> y, x |-> NullIndex, y |-> NullIndex, text |-> text]
    ELSE [column |-> NullIndex, row |-> NullIndex, x |-> x, y |-> y, text |-> text]

\* edit.column ?? edit.x and edit.row ?? edit.y
EditX(edit) == IF edit.column # NullIndex THEN edit.column ELSE edit.x
EditY(edit) == IF edit.row # NullIndex THEN edit.row ELSE edit.y

\* GridRange.makeCell(edit.column ?? edit.x, edit.row ?? edit.y)
EditCell(edit) == GridRange(EditX(edit), EditY(edit), EditX(edit), EditY(edit))

\* The first loop of setValues over the edits: the pending texts are cached
\* and the edits of pending rows are written to the copy of the map
RECURSIVE CacheEdits(_, _)
CacheEdits(acc, edits) ==
    IF edits = << >> THEN acc
    ELSE LET edit == Head(edits)
             pending == pendingRow(EditRowModel(acc.state), EditY(edit))
             cached == [acc.state EXCEPT !.pendingStringData =
                           CacheAll(acc.state.pendingStringData,
                                    {<<EditX(edit), EditY(edit)>>}, formattedTextOf(edit.text))]
         IN CacheEdits([state |-> cached,
                        newDataMap |-> IF NotNullish(pending)
                                       THEN EditPendingCell(acc.newDataMap, EditX(edit),
                                                            pending.v, edit.text)
                                       ELSE acc.newDataMap],
                       Tail(edits))

\* setValues up to its first await
startSetValues(s, edits) ==
    LET cached == CacheEdits([state |-> s, newDataMap |-> s.pendingNewDataMap], edits)
        set == setPendingDataMap(cached.state, cached.newDataMap, FALSE)
    IN IF set.threw THEN set ELSE Outcome(set.state, FALSE, set.events \o <<"UPDATED">>)

\* The cells of the edits in the rows of the table
EditedTableCells(s, edits) ==
    UNION {TableCells(s, EditCell(edits[i])) : i \in 1..Len(edits)}

RECURSIVE CacheFormattedEdits(_, _)
CacheFormattedEdits(f, edits) ==
    IF edits = << >> THEN f
    ELSE CacheFormattedEdits(CacheAll(f, {<<EditX(Head(edits)), EditY(Head(edits))>>},
                                      formattedTextOf(Head(edits).text)),
                             Tail(edits))

\* setValues from the end of its try block on: the texts are cached unless
\* something was thrown before, then clearPendingValue(edit.column, edit.row)
\* runs for every edit
finishSetValues(s, edits, thrown) ==
    LET cached == IF thrown THEN s
                  ELSE [s EXCEPT !.formattedStringData =
                            CacheFormattedEdits(s.formattedStringData, edits)]
    IN [cached EXCEPT !.pendingStringData =
           ClearAll(cached.pendingStringData,
                    {<<edits[i].column, edits[i].row>> : i \in 1..Len(edits)})]

\* The pending rows of a range, counted from the first pending row
PendingRowsOf(s, range) ==
    {pendingRow(EditRowModel(s), y).v :
        y \in {r \in range.startRow..range.endRow : NotNullish(pendingRow(EditRowModel(s), r))}}

\* delete(ranges) up to its first await; what follows reads the table and
\* writes to the input table only
deleteRanges(s, inputTable, range) ==
    IF ~isDeletableRange(s, inputTable, range) THEN Outcome(s, TRUE, << >>)
    ELSE IF inputTable.keyColumns = 0 THEN Outcome(s, TRUE, << >>)
    ELSE IF PendingRowsOf(s, range) # {}
    THEN Outcome([s EXCEPT !.pendingNewDataMap =
                               SelectSeq(s.pendingNewDataMap,
                                         LAMBDA e : e[1].v \notin PendingRowsOf(s, range)),
                           !.formattedStringData = EmptyMap],
                 FALSE, <<"PENDING_DATA_UPDATED", "UPDATED">>)
    ELSE Outcome(s, FALSE, << >>)

\* (this.viewport?.bottom ?? 0)
ViewportBottom(viewport) == IF IsNullish(viewport) THEN 0 ELSE viewport.bottom

\* commitPending after its await, with everything cleared also when addRows
\* failed
settleCommitPendingAlways(s, viewport, ok) ==
    Outcome([s EXCEPT !.pendingNewDataMap = << >>,
                      !.pendingNewRowCount = Max({0, ViewportBottom(viewport) - EditTable.size}),
                      !.formattedStringData = EmptyMap],
            ~ok, <<"PENDING_DATA_UPDATED">>)

\* commitPending after await this.inputTable?.addRows(newRows)
settleCommitPending(s, viewport, ok) ==
    IF ok
    THEN Outcome([s EXCEPT !.pendingNewDataMap = << >>,
                           !.pendingNewRowCount =
                               Max({0, ViewportBottom(viewport) - EditTable.size}),
                           !.formattedStringData = EmptyMap],
                 FALSE, <<"PENDING_DATA_UPDATED">>)
    ELSE Outcome(s, TRUE, << >>)

\* get isEditable
isEditable == ~pnIsSaveInProgress /\ NotNullish(pnInputTable)

\* The commitPending calls that may be in flight at once
MaxCommits == 2

EditLists ==
    {<< >>}
    \cup {<<EditOperation(style, 0, y, text)>> :
             style \in {"column/row", "x/y"}, y \in EditRows, text \in EditTexts}
    \cup {<<EditOperation("column/row", 0, 0, "v"),
            EditOperation("x/y", 0, EditTable.size, "v")>>}

ValuesEdit(edits, pc) ==
    [edits |-> edits, pc |-> pc, promise |-> "pending", failed |-> "none"]

\* model.setValues(edits), up to its first await or, when no row of the
\* table is edited, to its end
SetValues(edits) ==
    /\ ~EditInFlight
    /\ LET invalid == \E i \in 1..Len(edits) : Uneditable(EditCell(edits[i]))
       IN IF \E i \in 1..Len(edits) :
                 ~isEditableRange(PendingState, pnInputTable, EditCell(edits[i]))
          THEN /\ pnEdit' = << >>
               /\ pnLastOp' = <<LastOp("setValues", invalid, TRUE, << >>),
                                Settled("rejected", "uneditable")>>
               /\ UNCHANGED <<pnPendingNewDataMap, pnPendingNewRowCount,
                              pnFormattedStringData, pnPendingStringData>>
          ELSE LET start == startSetValues(PendingState, edits)
                   call == LastOp("setValues", invalid, FALSE, start.events)
               IN IF ~start.threw /\ EditedTableCells(start.state, edits) # {}
                  THEN /\ PendingBecomes(start.state)
                       /\ pnEdit' = <<ValuesEdit(edits, "values snapshot")>>
                       /\ pnLastOp' = <<call>>
                  ELSE /\ PendingBecomes(finishSetValues(start.state, edits, start.threw))
                       /\ pnEdit' = << >>
                       /\ pnLastOp' = <<call, IF start.threw
                                              THEN Settled("rejected", "pendingDataMap")
                                              ELSE Settled("resolved", "none")>>
    /\ UNCHANGED <<pnInputTable, commitVars, notPendingVars>>
    /\ TrackEntered

\* await this.snapshot(...) of setValues settles: an error runs the finally
\* block and rejects the promise
SetValuesSnapshotSettles(ok) ==
    /\ EditInFlight
    /\ pnEdit[1].pc = "values snapshot"
    /\ IF ok
       THEN /\ pnEdit' = <<[pnEdit[1] EXCEPT !.pc = "values addRows"]>>
            /\ pnLastOp' = <<LastOp("setValues snapshot settles", FALSE, FALSE, << >>)>>
            /\ UNCHANGED <<pnPendingNewDataMap, pnPendingNewRowCount, pnFormattedStringData,
                           pnPendingStringData>>
       ELSE /\ PendingBecomes(finishSetValues(PendingState, pnEdit[1].edits, TRUE))
            /\ pnEdit' = << >>
            /\ pnLastOp' = <<LastOp("setValues snapshot settles", FALSE, TRUE, << >>),
                             Settled("rejected", "snapshot")>>
    /\ UNCHANGED <<pnInputTable, commitVars, notPendingVars>>
    /\ TrackEntered

\* await this.inputTable?.addRows(newRows) of setValues settles, and
\* setValues runs to its end
SetValuesAddRowsSettles(ok) ==
    /\ EditInFlight
    /\ pnEdit[1].pc = "values addRows"
    /\ PendingBecomes(finishSetValues(PendingState, pnEdit[1].edits, ~ok))
    /\ pnEdit' = << >>
    /\ pnLastOp' = <<LastOp("setValues addRows settles", FALSE, ~ok, << >>),
                     IF ok THEN Settled("resolved", "none")
                     ELSE Settled("rejected", "addRows")>>
    /\ UNCHANGED <<pnInputTable, commitVars, notPendingVars>>
    /\ TrackEntered

\* model.delete([range])
Delete(range) ==
    /\ LET deleted == deleteRanges(PendingState, pnInputTable, range)
       IN /\ PendingBecomes(deleted.state)
          /\ pnLastOp' = <<LastOp("delete", FALSE, deleted.threw, deleted.events)>>
    /\ UNCHANGED <<pnInputTable, pnEdit, commitVars, notPendingVars>>
    /\ TrackEntered

\* model.commitPending(), up to its await
CommitPending ==
    /\ Len(pnCommits) < MaxCommits
    /\ IF Len(pnPendingNewDataMap) <= 0
       THEN /\ pnLastOp' = <<LastOp("commitPending", FALSE, TRUE, << >>)>>
            /\ UNCHANGED <<pnIsSaveInProgress, pnCommits>>
       ELSE /\ pnIsSaveInProgress' = TRUE
            /\ pnCommits' = Append(pnCommits, {})
            /\ pnLastOp' = <<LastOp("commitPending", FALSE, FALSE, << >>)>>
    /\ UNCHANGED <<pnInputTable, pnPendingNewDataMap, pnPendingNewRowCount,
                   pnFormattedStringData, pnPendingStringData, pnEdit, pnViewport,
                   notPendingVars>>

\* await this.inputTable?.addRows(newRows) of the i-th commitPending call in
\* flight settles, and the call runs to its end; without an input table
\* there is no call that could fail
CommitSettles(i, ok) ==
    /\ i <= Len(pnCommits)
    /\ ~ok => NotNullish(pnInputTable)
    /\ LET settled == settleCommitPending(PendingState, pnViewport, ok)
       IN /\ PendingBecomes(settled.state)
          /\ pnLastOp' = <<LastOp("commitPending settles", FALSE, settled.threw,
                                  settled.events)>>
    /\ pnIsSaveInProgress' = FALSE
    /\ LET entered == EnteredSince(pnCommits, pnPendingNewDataMap, pnPendingNewDataMap')
       IN pnCommits' = [k \in 1..(Len(pnCommits) - 1) |->
                           IF k < i THEN entered[k] ELSE entered[k + 1]]
    /\ UNCHANGED <<pnInputTable, pnEdit, pnViewport, notPendingVars>>

\* The assignments and the edits
NextPending ==
    \/ \E map \in ValidPendingMaps \cup InvalidPendingMaps : SetPendingDataMap(map, FALSE)
    \/ \E map \in ValidPendingMaps : SetPendingDataMap(map, TRUE)
    \/ \E count \in (0 - 1)..(MaxPendingIndex + 1) : SetPendingRowCountTo(count)
    \/ \E range \in EditRanges, text \in EditTexts : SetValueForRanges(range, text)
    \/ \E ok \in BOOLEAN : SnapshotSettles(ok)
    \/ \E ok \in BOOLEAN : AddRowsSettles(ok)
    \/ \E edits \in EditLists : SetValues(edits)
    \/ \E ok \in BOOLEAN : SetValuesSnapshotSettles(ok)
    \/ \E ok \in BOOLEAN : SetValuesAddRowsSettles(ok)

SpecPending == InitPending /\ [][NextPending]_vars

\* A model whose viewport ends on the first pending row, with an input table
\* whose only column is a key column or without one
InitCommit ==
    /\ pnInputTable \in {JsNull, [t |-> "object", keyColumns |-> 1]}
    /\ pnViewport = [t |-> "object", bottom |-> EditTable.size + 1]
    /\ pnIsSaveInProgress = FALSE
    /\ pnCommits = << >>
    /\ pnPendingNewDataMap = << >>
    /\ pnPendingNewRowCount = 0
    /\ pnFormattedStringData = EmptyMap
    /\ pnPendingStringData = EmptyMap
    /\ pnEdit = << >>
    /\ pnLastOp = << >>
    /\ NotPendingIdle

\* The edits that name their cell by column and row
ColumnRowEdits == {edits \in EditLists : \A i \in 1..Len(edits) : edits[i].column # NullIndex}

\* The assignments, the edits, delete and commitPending
NextCommit ==
    \/ \E map \in ValidPendingMaps : SetPendingDataMap(map, FALSE)
    \/ \E count \in (0 - 1)..(MaxPendingIndex + 1) : SetPendingRowCountTo(count)
    \/ \E range \in EditRanges, text \in EditTexts : SetValueForRanges(range, text)
    \/ \E edits \in ColumnRowEdits : SetValues(edits)
    \/ \E range \in EditRanges : Delete(range)
    \/ CommitPending
    \/ \E i \in 1..MaxCommits, ok \in BOOLEAN : CommitSettles(i, ok)

SpecCommit == InitCommit /\ [][NextCommit]_vars

(***************************************************************************)
(* The pending rows, their count and commitPending                         *)
(***************************************************************************)
LastOpIs(ops) == pnLastOp # << >> /\ pnLastOp[1].op \in ops

Dispatched(op, event) == \E i \in 1..Len(op.events) : op.events[i] = event

PendingRowsWithinCount ==
    /\ pnPendingNewRowCount >= 0
    /\ \A i \in 1..Len(pnPendingNewDataMap) : pnPendingNewDataMap[i][1].v < pnPendingNewRowCount

\* C12: after any sequence of assignments, edits, deletes and commits,
\* pendingRowCount is at least 0 and above every row index of
\* pendingDataMap, and assigning pendingDataMap never decreases
\* pendingRowCount
C12_PendingRowsWithinCount ==
    /\ []PendingRowsWithinCount
    /\ [][(pnLastOp' # << >> /\ pnLastOp'[1].op = "set pendingDataMap")
              => pnPendingNewRowCount' >= pnPendingNewRowCount]_vars

C12_Witness ==
    /\ LastOpIs({"set pendingRowCount"})
    /\ Dispatched(pnLastOp[1], "UPDATED")
    /\ Len(pnPendingNewDataMap) > 0
    /\ Len(pnCommits) > 0

\* The calls of commitPending and the steps that settle them
CommitRejectedStep == pnLastOp' # << >> /\ pnLastOp'[1].op = "commitPending" /\ pnLastOp'[1].threw
CommitStartedStep == pnLastOp' # << >> /\ pnLastOp'[1].op = "commitPending" /\ ~pnLastOp'[1].threw
CommitSettledStep == pnLastOp' # << >> /\ pnLastOp'[1].op = "commitPending settles"

\* commitPending rejects when there is nothing to commit; a failed addRows
\* leaves the pending rows and their count alone; the rows are removed and
\* PENDING_DATA_UPDATED is dispatched only after addRows succeeded
CommitLeavesRowsUntilSent ==
    /\ (pnLastOp' # << >> /\ pnLastOp'[1].op = "commitPending")
           => /\ pnLastOp'[1].threw <=> Len(pnPendingNewDataMap) = 0
              /\ pnPendingNewDataMap' = pnPendingNewDataMap
              /\ pnPendingNewRowCount' = pnPendingNewRowCount
              /\ ~Dispatched(pnLastOp'[1], "PENDING_DATA_UPDATED")
    /\ CommitSettledStep
           => IF pnLastOp'[1].threw
              THEN /\ pnPendingNewDataMap' = pnPendingNewDataMap
                   /\ pnPendingNewRowCount' = pnPendingNewRowCount
                   /\ ~Dispatched(pnLastOp'[1], "PENDING_DATA_UPDATED")
              ELSE /\ pnPendingNewDataMap' = << >>
                   /\ Dispatched(pnLastOp'[1], "PENDING_DATA_UPDATED")

\* C13: commitPending rejects when pendingDataMap is empty, a failed addRows
\* leaves pendingDataMap and pendingRowCount as they were, pendingDataMap is
\* emptied and PENDING_DATA_UPDATED dispatched only after addRows succeeded,
\* and isSaveInProgress is false once the call has settled, on every path
C13_CommitPendingSettles ==
    [][/\ CommitLeavesRowsUntilSent
       /\ (CommitRejectedStep \/ CommitSettledStep) => pnIsSaveInProgress' = FALSE]_vars

\* C13, amended: as above, but isSaveInProgress is false once a call that
\* sent rows has settled, and a call rejected for want of pending rows
\* leaves isSaveInProgress as it was
C13_CommitPendingSettlesAmended ==
    [][/\ CommitLeavesRowsUntilSent
       /\ CommitSettledStep => pnIsSaveInProgress' = FALSE
       /\ CommitRejectedStep => pnIsSaveInProgress' = pnIsSaveInProgress]_vars

C13_Witness ==
    /\ LastOpIs({"commitPending"})
    /\ pnLastOp[1].threw
    /\ pnIsSaveInProgress
    /\ Len(pnCommits) > 0

\* C14: while a commitPending call is in flight isEditable is false, also
\* when several calls overlap
C14_NotEditableWhileCommitting ==
    Len(pnCommits) > 0 => ~isEditable

\* C15: a commitPending call that succeeds leaves in pendingDataMap the cell
\* values that were entered while it was in flight; checked for the values
\* entered since the latest call in flight sent its rows
C15_CommitKeepsLaterEdits ==
    [][(CommitSettledStep /\ ~pnLastOp'[1].threw)
          => pnCommits[Len(pnCommits)] \subseteq Entries(pnPendingNewDataMap')]_vars

\* C16: once setValueForRanges or setValues has settled, no entry of the
\* pending string cache remains for an edited cell
C16_PendingTextCleared ==
    pnEdit = << >> => DOMAIN pnPendingStringData = {}

\* C17: setValueForRanges and setValues reject exactly when a range or a
\* cell may not be edited, and then the pending string cache,
\* pendingDataMap and pendingRowCount are untouched, no event is dispatched
\* and no call is left in flight that would write to the input table
C17_UneditableRejected ==
    [][(pnLastOp' # << >> /\ pnLastOp'[1].op \in {"setValueForRanges", "setValues"})
          => /\ pnLastOp'[1].invalid <=> pnLastOp'[1].threw
             /\ pnLastOp'[1].invalid
                    => /\ Len(pnLastOp') = 2
                       /\ pnLastOp'[2] = Settled("rejected", "uneditable")
                       /\ pnPendingStringData' = pnPendingStringData
                       /\ pnPendingNewDataMap' = pnPendingNewDataMap
                       /\ pnPendingNewRowCount' = pnPendingNewRowCount
                       /\ pnFormattedStringData' = pnFormattedStringData
                       /\ pnLastOp'[1].events = << >>
                       /\ pnEdit' = << >>]_vars

C17_Witness ==
    /\ LastOpIs({"setValueForRanges", "setValues"})
    /\ pnLastOp[1].invalid
    /\ pnLastOp[1].threw
    /\ NotNullish(pnInputTable)
    /\ Len(pnPendingNewDataMap) > 0
    /\ DOMAIN pnFormattedStringData # {}

\* C18: the model holds at most one open viewport subscription: the table
\* has at most one subscription that it handed out and that was not closed,
\* it has one exactly when the model holds a subscription, and filter, sort,
\* customColumns and formatColumns were never applied to the table while a
\* subscription was open, so that every subscription is closed before the
\* model obtains another.
C18_AtMostOneSubscription ==
    /\ vpOpenSubscriptions <= 1
    /\ (vpOpenSubscriptions = 1) <=> (vpSubscription # << >>)
    /\ ~vpChangedWhileSubscribed

\* A filter was set, a subscription was closed and the model holds another one
C18_Witness ==
    /\ vpTableFilter # << >>
    /\ vpClosedSubscription
    /\ vpOpenSubscriptions = 1
    /\ vpSubscription # << >>

\* stopListening() was called and neither setViewport, startListening nor a
\* setter of filter, sort, customColumns or formatColumns was called since
StoppedSince == vpStopRecord # << >>

\* C19: after stopListening the model holds no subscription, the table has no
\* open subscription and no throttled setViewport or applyViewport call is
\* waiting for its timer, and as long as setViewport, startListening and the
\* setters are not called again no step sends a viewport request or creates a
\* subscription.
C19_StoppedModelIsQuiet ==
    /\ [](StoppedSince =>
            /\ vpSubscription = << >>
            /\ vpOpenSubscriptions = 0
            /\ vpSetThrottle = NewThrottle
            /\ vpApplyThrottle = NewThrottle)
    /\ [][(StoppedSince /\ StoppedSince') =>
            UNCHANGED <<vpSubscription, vpOpenSubscriptions, vpLastRequest>>]_vars

\* stopListening() found a subscription open and both throttled calls waiting
C19_Witness ==
    /\ StoppedSince
    /\ vpStopRecord[1].subscribed
    /\ vpStopRecord[1].setViewportPending
    /\ vpStopRecord[1].applyViewportPending
    /\ vpSubscription = << >>

\* The model holds a totals table that was not closed
TotalsTableOpen ==
    vpTotalsTable # JsNull /\ vpTotalsRequests[vpTotalsTable.request].status # "closed"

\* A call of table.getTotalsTable is pending and its promise was not cancelled
TotalsRequestLeftPending ==
    \E i \in 1..Len(vpTotalsRequests) :
        vpTotalsRequests[i].status = "pending" /\ ~vpTotalsRequests[i].canceled

\* After close() the totals table is closed and no totals request is left
\* pending without being cancelled
ClosedTotals == vpTableClosed => (~TotalsTableOpen /\ ~TotalsRequestLeftPending)

\* Once the table is closed no step sends a viewport request or creates a
\* subscription
NoRequestAfterClose ==
    [][vpTableClosed => UNCHANGED <<vpSubscription, vpOpenSubscriptions, vpLastRequest>>]_vars

\* C20: after close() the model holds no viewport subscription, the totals
\* table is closed and a pending totals request is cancelled, and no later
\* step sends a viewport request or creates a subscription, also when a
\* throttled setViewport or applyViewport call was waiting for its timer.
C20_ClosedModelIsQuiet ==
    /\ [](vpTableClosed => vpSubscription = << >>)
    /\ []ClosedTotals
    /\ NoRequestAfterClose

\* The getTotalsTable calls that were made for a totalsConfig that was
\* replaced, or set to null, before they settled
Superseded(i) == vpTotalsRequests[i].canceled

\* The totals table the model holds is the one of the last call of
\* table.getTotalsTable, made for the totalsConfig that is set now
TotalsTableIsCurrent ==
    vpTotalsTable # JsNull =>
        /\ vpTotalsTable.request = Len(vpTotalsRequests)
        /\ vpTotalsRequests[vpTotalsTable.request].totalsConfig = vpTotals
        /\ ~Superseded(vpTotalsTable.request)

\* C21: the totals table the model holds belongs to the totalsConfig assigned
\* last; the table of a request that was superseded before it arrived is never
\* installed and is closed when it arrives, no REQUEST_FAILED is dispatched for
\* such a request, and every totals table the model does not hold (a replaced
\* one) is closed.
C21_TotalsTableOfLastConfig ==
    /\ TotalsTableIsCurrent
    /\ \A i \in 1..Len(vpTotalsRequests) :
          /\ Superseded(i) => vpTotalsRequests[i].status \in {"pending", "closed", "failed"}
          /\ Superseded(i) => ~vpTotalsRequests[i].requestFailed
          /\ vpTotalsRequests[i].status = "open" => vpTotalsTable = OfRequest(i)

\* totalsConfig was set to A and then to B before the table of A arrived: the
\* table of A arrived and was closed, and the model holds the table of B
C21_Witness ==
    /\ Len(vpTotalsRequests) = 2
    /\ Superseded(1)
    /\ vpTotalsRequests[1].status = "closed"
    /\ vpTotalsRequests[1].totalsConfig # vpTotalsRequests[2].totalsConfig
    /\ vpTotalsTable = OfRequest(2)
    /\ vpTotalsRequests[2].status = "open"

\* The rows of the grid that follow the rows of the table, one for each
\* pending row
PendingRowsOfGrid(m) ==
    (floatingTopRowCount(m) + m.tableSize)..
        (floatingTopRowCount(m) + m.tableSize + m.pendingNewRowCount - 1)

\* C22: a row of the grid is classified unambiguously: for every row y,
\* totalsRow(y) and pendingRow(y) are not both non-null, with the totals on top
\* or at the bottom, and pendingRow(y) is non-null exactly for the
\* pendingRowCount rows that follow the rows of the table.
C22_RowsClassifiedUnambiguously ==
    \A y \in GridRows :
        /\ ~(NotNullish(totalsRow(ViewModel, y)) /\ NotNullish(pendingRow(ViewModel, y)))
        /\ NotNullish(pendingRow(ViewModel, y)) <=> y \in PendingRowsOfGrid(ViewModel)

(***************************************************************************)
(* IrisGridUtils.dehydrateSort and hydrateSort. A dh.Sort is a record of   *)
(* the column it sorts, isAbs and its direction; dh.Table.reverse() is a   *)
(* sort without a column.                                                  *)
(***************************************************************************)
MaxSorts == 2

\* TableUtils.sortDirection
SortAscending == Str("ASC")
SortDescending == Str("DESC")
SortReverse == Str("REVERSE")
SortNone == JsNull

Sort(column, isAbs, direction) ==
    [t |-> "Sort", column |-> column, isAbs |-> isAbs, direction |-> direction]

\* column.sort(), sort.abs(), sort.desc(), sort.asc() and dh.Table.reverse()
ColumnSort(column) == Sort(column, FALSE, SortAscending)
SortAbs(sort) == [sort EXCEPT !.isAbs = TRUE]
SortDesc(sort) == [sort EXCEPT !.direction = SortDescending]
SortAsc(sort) == [sort EXCEPT !.direction = SortAscending]
TableReverse == Sort(JsNull, FALSE, SortReverse)

\* A saved sort: {column: index, isAbs, direction}
SavedSort(columnIndex, isAbs, direction) ==
    [column |-> columnIndex, isAbs |-> isAbs, direction |-> direction]

\* The sort hydrateSort makes of one saved sort, null without its column
hydrateOneSort(columns, saved) ==
    IF saved.direction = SortReverse THEN TableReverse
    ELSE LET column == getColumn(columns, saved.column)
         IN IF NotNullish(column)
            THEN LET columnSort == ColumnSort(column)
                     absSort == IF saved.isAbs THEN SortAbs(columnSort) ELSE columnSort
                 IN IF saved.direction = SortDescending
                    THEN SortDesc(absSort) ELSE SortAsc(absSort)
            ELSE JsNull

\* hydrateSort without its filter
hydrateSortUnfiltered(columns, sorts) ==
    Returned([i \in 1..Len(sorts) |-> hydrateOneSort(columns, sorts[i])])

hydrateSort(columns, sorts) ==
    LET kept(item) == NotNullish(item) /\ item.direction # SortReverse
    IN Returned(SelectSeq([i \in 1..Len(sorts) |-> hydrateOneSort(columns, sorts[i])], kept))

\* The index of a column of the table: column.index
ColumnIndex(columns, column) ==
    (CHOOSE i \in 1..Len(columns) : columns[i] = column) - 1

dehydrateSort(columns, sorts) ==
    Returned([i \in 1..Len(sorts) |->
                 SavedSort(ColumnIndex(columns, sorts[i].column), sorts[i].isAbs,
                           sorts[i].direction)])

\* Saved column indexes: a column of every table, one of the larger tables
\* only, and one of no table
SortIndexes == {0, 2, 3}
SavedSorts ==
    SeqsUpTo({SavedSort(columnIndex, isAbs, direction) :
                 columnIndex \in SortIndexes, isAbs \in BOOLEAN,
                 direction \in {SortAscending, SortDescending, SortReverse, SortNone}},
             MaxSorts)

\* The sorts of a table with these columns: its first and its last column
TableSortsOf(columns) ==
    SeqsUpTo({Sort(columns[c], isAbs, direction) :
                 c \in {1, Len(columns)}, isAbs \in BOOLEAN,
                 direction \in {SortAscending, SortDescending}},
             MaxSorts)

\* The saved sorts of a dashboard that are to be hydrated, or the sorts of the
\* table that are to be saved
InitSort ==
    /\ fColumns \in ColumnLists
    /\ \/ \E sorts \in SavedSorts : fCall = <<[op |-> "saved sorts", arg |-> sorts]>>
       \/ \E sorts \in TableSortsOf(fColumns) :
             fCall = <<[op |-> "table sorts", arg |-> sorts]>>
    /\ fResult = << >>
    /\ NotFiltersIdle

HydrateSort ==
    /\ FiltersCalled("saved sorts")
    /\ fCall' = <<[op |-> "hydrateSort", arg |-> fCall[1].arg]>>
    /\ fResult' = <<hydrateSort(fColumns, fCall[1].arg)>>
    /\ UNCHANGED <<fColumns, notFiltersVars>>

\* dehydrateSort(sorts) of the sorts of the table, then hydrateSort of what
\* was saved, over the same columns
DehydrateSort ==
    /\ FiltersCalled("table sorts")
    /\ fCall' = <<[op |-> "dehydrateSort", arg |-> fCall[1].arg]>>
    /\ fResult' = <<hydrateSort(fColumns, dehydrateSort(fColumns, fCall[1].arg).returned)>>
    /\ UNCHANGED <<fColumns, notFiltersVars>>

NextSort ==
    \/ HydrateSort
    \/ DehydrateSort

SpecSort == InitSort /\ [][NextSort]_vars

\* The saved sorts that hydrateSort is to keep: not a reverse entry, and the
\* column index refers to a column
SortKept(columns, saved) ==
    saved.direction # SortReverse /\ saved.column \in 0..(Len(columns) - 1)

\* The positions of the saved sorts that are kept, in the saved order
RECURSIVE KeptPositions(_, _, _)
KeptPositions(columns, sorts, from) ==
    IF from > Len(sorts) THEN << >>
    ELSE (IF SortKept(columns, sorts[from]) THEN <<from>> ELSE << >>)
         \o KeptPositions(columns, sorts, from + 1)

\* C23: hydrateSort returns without throwing, in the saved order, one sort for
\* each saved sort that is not a reverse entry and whose column index refers
\* to an existing column: the sort of that column, abs exactly when isAbs is
\* set, descending exactly when the saved direction is descending and
\* ascending otherwise; the other saved sorts are omitted.
C23_HydrateSort ==
    FiltersCalled("hydrateSort") =>
        LET sorts == fCall[1].arg
            kept == KeptPositions(fColumns, sorts, 1)
            result == fResult[1]
        IN /\ ~IsThrown(result)
           /\ Len(result.returned) = Len(kept)
           /\ \A k \in 1..Len(kept) :
                 LET saved == sorts[kept[k]]
                     sort == result.returned[k]
                 IN /\ sort.column = fColumns[saved.column + 1]
                    /\ sort.isAbs = saved.isAbs
                    /\ sort.direction =
                          IF saved.direction = SortDescending
                          THEN SortDescending ELSE SortAscending

\* hydrateSort was given a sort of a missing column, a reverse entry or both,
\* and a sort that it kept
C23_Witness ==
    /\ FiltersCalled("hydrateSort")
    /\ Len(fCall[1].arg) = 2
    /\ Len(fResult[1].returned) = 1
    /\ \E i \in 1..2 : fCall[1].arg[i].direction = SortReverse
                          \/ fCall[1].arg[i].column >= Len(fColumns)
    /\ fResult[1].returned[1].isAbs
    /\ fResult[1].returned[1].direction = SortDescending

(***************************************************************************)
(* ConsolePanel: consoleSettings, itemIds and the dehydrated panelState.   *)
(* The operators take and return the state of the component as a record s. *)
(* A handler, the render that follows it and componentDidUpdate are one    *)
(* step. this.setState enqueues an update that the next render applies: a  *)
(* component that is unmounting is not rendered again.                     *)
(***************************************************************************)
DEBOUNCE_PANEL_STATE_UPDATE == 500

\* A consoleSettings object, told from another one by id
ConsoleSettings(id, isClosePanelsOnDisconnectEnabled) ==
    [t |-> "object", id |-> id,
     isClosePanelsOnDisconnectEnabled |-> isClosePanelsOnDisconnectEnabled]

PanelState(consoleSettings, itemIds) ==
    [t |-> "object", consoleSettings |-> consoleSettings, itemIds |-> itemIds]

DEFAULT_PANEL_STATE == PanelState(ConsoleSettings(0, Undefined), << >>)

\* this.setState(update) within a handler of a mounted component, and within
\* componentWillUnmount
setPanelState(s, panelState) ==
    IF s.phase = "unmounting" THEN s ELSE [s EXCEPT !.panelState = panelState]

\* constructor(props) with props.panelState
constructPanel(initialPanelState) ==
    LET panelState == IF IsNullish(initialPanelState)
                      THEN DEFAULT_PANEL_STATE ELSE initialPanelState
    IN [phase |-> "constructed",
        consoleSettings |-> panelState.consoleSettings,
        itemIds |-> MapOf(panelState.itemIds),
        panelState |-> panelState,
        saveTimer |-> FALSE,
        changed |-> FALSE]

\* The debounced savePanelState(): the timer is started again
savePanelState(s) == [s EXCEPT !.saveTimer = TRUE]

\* componentDidUpdate after a render in which state.consoleSettings or
\* state.itemIds became another object
componentDidUpdate(s, settingsChanged, itemIdsChanged) ==
    IF settingsChanged \/ itemIdsChanged
    THEN [savePanelState(s) EXCEPT !.changed = TRUE]
    ELSE s

\* The function savePanelState debounces
savePanelStateNow(s) ==
    setPanelState(s, PanelState(s.consoleSettings, s.itemIds))

\* savePanelState.flush()
flushSavePanelState(s) ==
    IF s.saveTimer THEN savePanelStateNow([s EXCEPT !.saveTimer = FALSE]) ELSE s

\* setItemId(name, id): the Map is a new one also when nothing differs
setItemId(s, name, id) ==
    componentDidUpdate([s EXCEPT !.itemIds = MapSet(s.itemIds, name, id)], FALSE, TRUE)

\* getItemId(name) of openWidget, with the id shortid.generate() would make
getItemId(s, name, generated) ==
    IF name \in MapKeys(s.itemIds) THEN s ELSE setItemId(s, name, generated)

MapValues(m) == {m[i][2] : i \in 1..Len(m)}

handlePanelMount(s, panelId, sourceId) ==
    IF sourceId \in MapValues(s.itemIds) THEN setItemId(s, panelId, panelId) ELSE s

handleSettingsChange(s, consoleSettings) ==
    componentDidUpdate([s EXCEPT !.consoleSettings = consoleSettings],
                       consoleSettings.id # s.consoleSettings.id, FALSE)

closeDisconnectedPanels(s, force) ==
    LET enabled == IF IsNullish(s.consoleSettings.isClosePanelsOnDisconnectEnabled)
                   THEN TRUE
                   ELSE s.consoleSettings.isClosePanelsOnDisconnectEnabled.v
    IN IF ~enabled /\ ~force THEN s
       ELSE componentDidUpdate([s EXCEPT !.itemIds = << >>], FALSE, TRUE)

PanelComponent ==
    [phase |-> cpPhase, consoleSettings |-> cpConsoleSettings, itemIds |-> cpItemIds,
     panelState |-> cpPanelState, saveTimer |-> cpSaveTimer, changed |-> cpChanged]

\* The state of the component becomes s
PanelBecomes(s) ==
    /\ cpPhase' = s.phase
    /\ cpConsoleSettings' = s.consoleSettings
    /\ cpItemIds' = s.itemIds
    /\ cpPanelState' = s.panelState
    /\ cpSaveTimer' = s.saveTimer
    /\ cpChanged' = s.changed
    /\ UNCHANGED notPanelVars

\* The settings the console hands to handleSettingsChange
SettingsToSet ==
    {ConsoleSettings(1, Bool(FALSE)), ConsoleSettings(2, Bool(TRUE))}

WidgetTitles == {"t1", "t2"}
GeneratedIds == {"i1", "i2"}
MountedPanelIds == {"p1"}

\* The state of the component is s
PanelIs(s) ==
    /\ cpPhase = s.phase
    /\ cpConsoleSettings = s.consoleSettings
    /\ cpItemIds = s.itemIds
    /\ cpPanelState = s.panelState
    /\ cpSaveTimer = s.saveTimer
    /\ cpChanged = s.changed

\* A panel constructed without a saved panelState
InitPanel ==
    /\ PanelIs(constructPanel(JsNull))
    /\ NotPanelIdle

\* componentDidMount()
ComponentDidMount ==
    /\ cpPhase = "constructed"
    /\ PanelBecomes(closeDisconnectedPanels([PanelComponent EXCEPT !.phase = "mounted"], FALSE))

\* handleSettingsChange(consoleSettings)
HandleSettingsChange(consoleSettings) ==
    /\ cpPhase = "mounted"
    /\ PanelBecomes(handleSettingsChange(PanelComponent, consoleSettings))

\* handleOpenObject(object): openWidget asks getItemId for the id of the title
HandleOpenObject(title, generated) ==
    /\ cpPhase = "mounted"
    /\ PanelBecomes(getItemId(PanelComponent, title, generated))

\* handlePanelMount(panel)
HandlePanelMount(panelId, sourceId) ==
    /\ cpPhase = "mounted"
    /\ PanelBecomes(handlePanelMount(PanelComponent, panelId, sourceId))

\* The timer of the debounced savePanelState expires, 500 ms after the last
\* call
SavePanelStateTimer ==
    /\ cpPhase = "mounted"
    /\ cpSaveTimer
    /\ PanelBecomes(savePanelStateNow([PanelComponent EXCEPT !.saveTimer = FALSE]))

\* componentWillUnmount()
ComponentWillUnmount ==
    /\ cpPhase = "mounted"
    /\ PanelBecomes([flushSavePanelState([PanelComponent EXCEPT !.phase = "unmounting"])
                        EXCEPT !.phase = "unmounted"])

\* The dashboard constructs the panel again from the panelState it holds
Reload ==
    /\ cpPhase = "unmounted"
    /\ PanelBecomes(constructPanel(cpPanelState))

NextPanel ==
    \/ ComponentDidMount
    \/ \E consoleSettings \in SettingsToSet : HandleSettingsChange(consoleSettings)
    \/ \E title \in WidgetTitles, generated \in GeneratedIds : HandleOpenObject(title, generated)
    \/ \E panelId \in MountedPanelIds, sourceId \in GeneratedIds \cup MountedPanelIds :
          HandlePanelMount(panelId, sourceId)
    \/ SavePanelStateTimer
    \/ ComponentWillUnmount
    \/ Reload

SpecPanel == InitPanel /\ [][NextPanel]_vars

\* panelState is the dehydrated form of the current state
PanelStateCurrent ==
    cpPanelState = PanelState(cpConsoleSettings, cpItemIds)

\* A ConsolePanel constructed from panelState starts with the consoleSettings
\* and the name-to-id map of the current state
PanelStateLoads ==
    LET loaded == constructPanel(cpPanelState)
    IN /\ loaded.consoleSettings = cpConsoleSettings
       /\ {loaded.itemIds[i] : i \in 1..Len(loaded.itemIds)}
              = {cpItemIds[i] : i \in 1..Len(cpItemIds)}

\* consoleSettings or itemIds changed and the debounced save ran: its timer
\* expired while the panel was mounted
SavedByTimer == cpChanged /\ cpPhase = "mounted" /\ ~cpSaveTimer

\* consoleSettings or itemIds changed and the panel was unmounted
SavedByUnmount == cpChanged /\ cpPhase = "unmounted"

\* While the panel is mounted, a change is saved once the timer has expired
PanelStateSavedByTimer == SavedByTimer => (PanelStateCurrent /\ PanelStateLoads)

\* C24: after a change of consoleSettings or itemIds, once the debounced save
\* has run, because 500 ms passed without a further change or because the
\* panel was unmounted, panelState is {consoleSettings, itemIds as a list of
\* [name, id] pairs} of the current state, and a ConsolePanel constructed from
\* it starts with the same consoleSettings and the same name-to-id map.
C24_PanelStateReflectsState ==
    (SavedByTimer \/ SavedByUnmount) => (PanelStateCurrent /\ PanelStateLoads)

====
